---- MODULE Spec2Model ----
(***************************************************************************)
(* Model of the AI-communication client of coder-cli                       *)
(* (src/src/chat-handler.ts): getStreamedResponse with its stream decoder, *)
(* getResponse, and the retry wrapper getResponseWithRetry (specification  *)
(* Spec), and of its code-modifier (src/unnamed/part_004):                 *)
(* parseModificationsFromResponse and applyModifications (specification    *)
(* SpecMod; SpecUpdate applies batches of updates to existing files,       *)
(* SpecApply batches that may hold items of unknown type), and of the chat *)
(* session, startChatSession with its chatLoop, at the grain of whole      *)
(* requests (specification SpecSession).  SpecFair is Spec with fairness,  *)
(* for the properties of termination.                                      *)
(*                                                                         *)
(* Text is a sequence of tokens.  A token is a run of characters that the  *)
(* code never looks inside: "data:" (the five-character prefix), " ", the  *)
(* newline, "{" and "}", a JSON key, a JSON string value, the sentinel     *)
(* "[DONE]", a plain word.  A JSON object with one member is the four      *)
(* tokens  { key value } .  Reads of a stream split the text at any token  *)
(* boundary.                                                               *)
(***************************************************************************)
EXTENDS Integers, Sequences, FiniteSets, TLC

(***************************************************************************)
(* Bounds of the model and constants of the program.                       *)
(***************************************************************************)
MaxRetries == 3      \* default of the maxRetries parameter
MaxLines == 2        \* a stream holds at most this many lines
Timeout == 2         \* clock ticks that stand for config.timeout

NL == "\n"
SP == " "
DONE == "[DONE]"

(***************************************************************************)
(* Text helpers: String.prototype.trim / startsWith / includes / split.    *)
(***************************************************************************)
IsSpace(tok) == tok \in {SP, NL}

RECURSIVE TrimStart(_)
TrimStart(t) ==
    IF t # <<>> /\ IsSpace(Head(t)) THEN TrimStart(Tail(t)) ELSE t

RECURSIVE TrimEnd(_)
TrimEnd(t) ==
    IF t # <<>> /\ IsSpace(t[Len(t)]) THEN TrimEnd(SubSeq(t, 1, Len(t) - 1)) ELSE t

Trim(t) == TrimEnd(TrimStart(t))

StartsWith(t, p) == Len(t) >= Len(p) /\ SubSeq(t, 1, Len(p)) = p

Includes(t, phrase) == \E i \in 1..Len(t) : t[i] = phrase

Substring(t, n) == SubSeq(t, n + 1, Len(t))

\* buffer.split('\n'): the pieces between newlines, always at least one piece
RECURSIVE SplitLines(_, _, _)
SplitLines(t, cur, acc) ==
    IF t = <<>> THEN Append(acc, cur)
    ELSE IF Head(t) = NL THEN SplitLines(Tail(t), <<>>, Append(acc, cur))
    ELSE SplitLines(Tail(t), Append(cur, Head(t)), acc)

Split(t) == SplitLines(t, <<>>, <<>>)

RECURSIVE Concat(_)
Concat(ss) == IF ss = <<>> THEN <<>> ELSE Head(ss) \o Concat(Tail(ss))

(***************************************************************************)
(* JSON.parse on the one-member objects the backend sends.  "delta" stands *)
(* for choices[0].delta.content, "message" for choices[0].message.content. *)
(***************************************************************************)
JsonKeys == {"response", "delta", "message", "error", "other"}

JSONparse(t) ==
    LET s == Trim(t) IN
    IF Len(s) = 4 /\ s[1] = "{" /\ s[4] = "}" /\ s[2] \in JsonKeys
                  /\ s[3] \notin {"{", "}", NL, SP, "data:"}
    THEN [ok |-> TRUE, key |-> s[2], value |-> <<s[3]>>]
    ELSE IF s = <<"{", "}">>
    THEN [ok |-> TRUE, key |-> "none", value |-> <<>>]
    ELSE [ok |-> FALSE, key |-> "none", value |-> <<>>]

DataPrefix == <<"data:", SP>>


(***************************************************************************)
(* The stream decoder of getStreamedResponse: one complete line.           *)
(* emit is the list of fragments handed to onChunk (none or one), brk      *)
(* tells that the line was the sentinel and the for loop is left.          *)
(***************************************************************************)
NoFragment == [emit |-> <<>>, brk |-> FALSE]
Fragment(f) == [emit |-> <<f>>, brk |-> FALSE]

\* variant: a payload that does not parse is ignored
DecodeDataLineSilent(dataStr) ==
    LET parsed == JSONparse(dataStr) IN
    IF parsed.ok /\ parsed.key = "response" /\ parsed.value # <<>>
    THEN Fragment(parsed.value)
    ELSE NoFragment

\* the branch for a line that starts with 'data: '
DecodeDataLine(dataStr) ==
    LET parsed == JSONparse(dataStr) IN
    IF ~parsed.ok THEN Fragment(dataStr)
    ELSE IF parsed.key = "response" /\ parsed.value # <<>> THEN Fragment(parsed.value)
    ELSE NoFragment

\* the branch for a line without the prefix
DecodeBareLine(line) ==
    LET parsed == JSONparse(line) IN
    IF ~parsed.ok THEN Fragment(line)
    ELSE IF parsed.key = "delta"
         THEN IF parsed.value # <<>> THEN Fragment(parsed.value) ELSE NoFragment
    ELSE IF parsed.key = "response" /\ parsed.value # <<>> THEN Fragment(parsed.value)
    ELSE NoFragment

DecodeLine(line) ==
    IF Trim(line) = <<>> THEN NoFragment
    ELSE IF StartsWith(line, DataPrefix)
         THEN IF Substring(line, 2) = <<DONE>>
              THEN [emit |-> <<>>, brk |-> TRUE]
              ELSE DecodeDataLine(Substring(line, 2))
    ELSE DecodeBareLine(line)

\* for (const line of lines) { ... }: the fragments of one read
RECURSIVE ProcessLines(_)
ProcessLines(lines) ==
    IF lines = <<>> THEN <<>>
    ELSE LET d == DecodeLine(Head(lines)) IN
         IF d.brk THEN <<>> ELSE d.emit \o ProcessLines(Tail(lines))

\* variant: the partial line is not kept
CarryNothing(lines) == <<>>

\* buffer = lines.pop() || '': the incomplete last line stays in the buffer
CarryOver(lines) == lines[Len(lines)]

\* if (done) { ... }: what the end of the stream does with the buffer
FlushBuffer(buf) ==
    IF Trim(buf) = <<>> THEN <<>>
    ELSE IF StartsWith(buf, DataPrefix) THEN <<Substring(buf, 2)>>
    ELSE <<buf>>

(***************************************************************************)
(* Errors.  cls is the class of the thrown object, message its message.    *)
(* req and status are not fields of the object: they record the number of  *)
(* the request during which it was thrown and the status of the answer     *)
(* that caused it, for the properties to refer to.                         *)
(***************************************************************************)
NoError == [cls |-> "none", message |-> <<>>, req |-> 0, status |-> "none"]

AuthFailed == "Authentication failed"
DailyLimit == "Daily free generation limit exceeded"
NoTokens == "Insufficient tokens"

\* the message built for a non-2xx answer
ErrorMessage(status, errorText) ==
    LET errorData == JSONparse(errorText) IN
    IF errorData.ok /\ errorData.key = "error" /\ errorData.value # <<>>
    THEN errorData.value
    ELSE <<"API request failed with status", status, ":">> \o errorText

HttpError(status, errorText, n) ==
    [cls |-> "AiCommunicationError", message |-> ErrorMessage(status, errorText),
     req |-> n, status |-> status]

NetworkError(n) ==
    [cls |-> "TypeError", message |-> <<"fetch failed">>, req |-> n, status |-> "none"]
AbortError(n) ==
    [cls |-> "AbortError", message |-> <<"This operation was aborted">>, req |-> n,
     status |-> "none"]
SyntaxError(n) ==
    [cls |-> "SyntaxError", message |-> <<"Unexpected token">>, req |-> n, status |-> "200"]

\* variant: only the authentication phrase is tested
NonRetryableAuthOnly(error) == Includes(error.message, AuthFailed)

\* the test of getResponseWithRetry for errors that are not retried
NonRetryable(error) ==
    \/ Includes(error.message, DailyLimit)
    \/ Includes(error.message, NoTokens)
    \/ Includes(error.message, AuthFailed)

\* variant: the exponent counts the retries, not the attempts (1s, 2s, ...)
BackoffDelayFromOne(attempt) == (2 ^ (attempt - 1)) * 1000

\* Math.pow(2, attempt) * 1000
BackoffDelay(attempt) == (2 ^ attempt) * 1000

\* variant: the first error is kept
KeepsFirstError(previous, error) == IF previous.cls = "none" THEN error ELSE previous

\* lastError = error
LastErrorAfter(previous, error) == error

\* variant: a delay is slept after every failed attempt, the last included
SleepsAfterEveryAttempt(attempt) == attempt <= MaxRetries

\* if (attempt < maxRetries): a delay is slept and the loop goes on
SleepsAfter(attempt) == attempt < MaxRetries

\* the catch of the fallback in getStreamedResponse: which error is thrown
FallbackRaises(error, fallbackError) ==
    IF fallbackError.cls = "AiCommunicationError" THEN fallbackError
    ELSE IF error.cls = "AiCommunicationError" THEN error
    ELSE fallbackError

(***************************************************************************)
(* getResponse on a 2xx answer: the content it returns, or the error.      *)
(***************************************************************************)
GetResponseContent(contentType, body) ==
    LET data == JSONparse(body) IN
    IF ~data.ok
    THEN IF contentType = "application/json"
         THEN [ok |-> FALSE, content |-> <<>>]       \* response.json() throws
         ELSE [ok |-> TRUE, content |-> body]        \* returned as is
    ELSE IF data.key \in {"message", "delta"} THEN [ok |-> TRUE, content |-> data.value]
    ELSE IF data.key = "response" /\ data.value # <<>> THEN [ok |-> TRUE, content |-> data.value]
    ELSE [ok |-> TRUE, content |-> Trim(body)]       \* JSON.stringify(data)


(***************************************************************************)
(* What the backend may answer.                                            *)
(***************************************************************************)
StreamLines ==
    { <<"data:", SP, "{", "response", "A", "}">>,
      <<"data:", SP, "{", "delta", "B", "}">>,
      <<"data:", SP, DONE>>,
      <<"data:", DONE>>,
      <<"data:", SP, "x">>,
      <<"{", "delta", "B", "}">>,
      <<"x">>,
      <<>> }

RECURSIVE JoinLines(_)
JoinLines(ls) == IF ls = <<>> THEN <<>> ELSE Head(ls) \o <<NL>> \o JoinLines(Tail(ls))

LineSeqs == UNION { [1..n -> StreamLines] : n \in 0..MaxLines }

\* every stream of at most MaxLines lines, the last one with or without its newline
Streams ==
    { JoinLines(ls) : ls \in LineSeqs } \cup
    { SubSeq(JoinLines(ls), 1, Len(JoinLines(ls)) - 1) : ls \in LineSeqs \ {<<>>} }

\* the content-type header of a 2xx answer, as the pieces includes() looks for
ContentTypes ==
    { <<"text/event-stream">>,
      <<"text/plain", "; charset=utf-8">>,
      <<"application/json">> }

NoType == <<>>

\* variant: every answer is decoded as a stream
IsStreamTypeAlways(contentType) == TRUE

\* content-type includes 'text/event-stream' or includes 'text/plain'
IsStreamType(contentType) ==
    \/ Includes(contentType, "text/event-stream")
    \/ Includes(contentType, "text/plain")

ErrorStatuses == {"401", "403", "500"}

ErrorBodies ==
    { <<"Request rejected">>,
      <<"{", "error", AuthFailed, "}">>,
      <<"{", "error", NoTokens, "}">>,
      <<DailyLimit>> }

OkAnswers ==
    { [contentType |-> "application/json", body |-> <<"{", "response", "A", "}">>],
      [contentType |-> "application/json", body |-> <<"x">>],
      [contentType |-> "text/html", body |-> <<"x">>],
      [contentType |-> "text/html", body |-> <<"{", "message", "B", "}">>] }

(***************************************************************************)
(* code-modifier: parseModificationsFromResponse.                          *)
(* The response is a text of tokens: the fence, the quote, newline, space, *)
(* the directive keywords in some letter case, and words.  A path is the   *)
(* sequence of its segments and slashes.                                   *)
(***************************************************************************)
\* the three backquotes that open and close a block
FENCE == "[fence]"
QUOTE == "\""
SLASH == "/"

CreateFile == "Create file "
WithContent == " with content:"
DeleteFile == "Delete file "

\* the tokens of [\w]: letters, digits, underscore
WordTokens == {"js", "dir", "new", "hello"}

\* the tokens of [\w\.\/\-\_]
PathTokens == WordTokens \cup {"a.txt", "Old.txt", "old.txt", "n.txt", "x.js", "..", SLASH}

\* lower case of a token (the tokens without capital letters are their own)
ToLowerCase(tok) ==
    CASE tok \in {"Create file ", "CREATE FILE "} -> "create file "
      [] tok \in {"Delete file ", "DELETE FILE "} -> "delete file "
      [] tok = " WITH CONTENT:" -> " with content:"
      [] tok = "Old.txt" -> "old.txt"
      [] OTHER -> tok

\* variant: the letters are compared as they are
MatchesLiteralExactly(tok, literal) == tok = literal

\* a literal of a pattern with the flag i
MatchesLiteral(tok, literal) == ToLowerCase(tok) = ToLowerCase(literal)

\* the first index from i on whose token is not in the class
RECURSIVE RunEnd(_, _, _)
RunEnd(t, i, class) ==
    IF i > Len(t) \/ t[i] \notin class THEN i ELSE RunEnd(t, i + 1, class)

\* the first index from i on whose token is tok, 0 when there is none
RECURSIVE IndexOf(_, _, _)
IndexOf(t, tok, i) ==
    IF i > Len(t) THEN 0
    ELSE IF t[i] = tok THEN i ELSE IndexOf(t, tok, i + 1)

At(t, i) == IF i >= 1 /\ i <= Len(t) THEN t[i] ELSE ""

NoMatch == [ok |-> FALSE, filePath |-> <<>>, content |-> <<>>, next |-> 0]

\* /```([\w\.\/\-\_]+)\n([\s\S]*?)```/ tried at index i
MatchFileRegex(t, i) ==
    LET j == RunEnd(t, i + 1, PathTokens)
        k == IndexOf(t, FENCE, j + 1)
    IN  IF At(t, i) = FENCE /\ j > i + 1 /\ At(t, j) = NL /\ k # 0
        THEN [ok |-> TRUE, filePath |-> SubSeq(t, i + 1, j - 1),
              content |-> SubSeq(t, j + 1, k - 1), next |-> k + 1]
        ELSE NoMatch

\* /Create file "([^"]+)" with content:\s*```(?:\w+)?\n([\s\S]*?)```/i tried at i
MatchCreateRegex(t, i) ==
    LET q == IndexOf(t, QUOTE, i + 2)
        w == RunEnd(t, q + 2, {SP, NL})
        g == RunEnd(t, w + 1, WordTokens)
        k == IndexOf(t, FENCE, g + 1)
    IN  IF /\ MatchesLiteral(At(t, i), CreateFile)
           /\ At(t, i + 1) = QUOTE
           /\ q > i + 2
           /\ MatchesLiteral(At(t, q + 1), WithContent)
           /\ At(t, w) = FENCE
           /\ At(t, g) = NL
           /\ k # 0
        THEN [ok |-> TRUE, filePath |-> SubSeq(t, i + 2, q - 1),
              content |-> SubSeq(t, g + 1, k - 1), next |-> k + 1]
        ELSE NoMatch

\* /Delete file "([^"]+)"/i tried at index i
MatchDeleteRegex(t, i) ==
    LET q == IndexOf(t, QUOTE, i + 2)
    IN  IF /\ MatchesLiteral(At(t, i), DeleteFile)
           /\ At(t, i + 1) = QUOTE
           /\ q > i + 2
        THEN [ok |-> TRUE, filePath |-> SubSeq(t, i + 2, q - 1),
              content |-> <<>>, next |-> q + 1]
        ELSE NoMatch

MatchAt(regex, t, i) ==
    CASE regex = "file" -> MatchFileRegex(t, i)
      [] regex = "create" -> MatchCreateRegex(t, i)
      [] regex = "delete" -> MatchDeleteRegex(t, i)

\* while ((match = regex.exec(aiResponse)) !== null): the matches from i on
RECURSIVE ExecAll(_, _, _)
ExecAll(regex, t, i) ==
    IF i > Len(t) THEN <<>>
    ELSE LET m == MatchAt(regex, t, i) IN
         IF m.ok THEN <<m>> \o ExecAll(regex, t, m.next)
         ELSE ExecAll(regex, t, i + 1)

\* an optional field: absent, or one value
Absent == <<>>
Present(v) == <<v>>

\* variant: the content of the block is trimmed
UpdateTrimmed(match) ==
    [type |-> "update", filePath |-> match.filePath,
     content |-> Present(Trim(match.content)), method |-> Present("replace")]

UpdateModification(match) ==
    [type |-> "update", filePath |-> match.filePath,
     content |-> Present(match.content), method |-> Present("replace")]

CreateModification(match) ==
    [type |-> "create", filePath |-> match.filePath,
     content |-> Present(match.content), method |-> Absent]

DeleteModification(match) ==
    [type |-> "delete", filePath |-> match.filePath,
     content |-> Absent, method |-> Absent]

\* variant: one scan of the text, the modifications in the order of their places
RECURSIVE ScanInTextOrder(_, _)
ScanInTextOrder(t, i) ==
    IF i > Len(t) THEN <<>>
    ELSE LET f == MatchFileRegex(t, i)
             c == MatchCreateRegex(t, i)
             d == MatchDeleteRegex(t, i)
         IN  (IF f.ok THEN <<UpdateModification(f)>> ELSE <<>>)
             \o (IF c.ok THEN <<CreateModification(c)>> ELSE <<>>)
             \o (IF d.ok THEN <<DeleteModification(d)>> ELSE <<>>)
             \o ScanInTextOrder(t, i + 1)

parseInTextOrder(t) == ScanInTextOrder(t, 1)

\* three scans of the whole text, one after the other
parseModificationsFromResponse(t) ==
    LET files == ExecAll("file", t, 1)
        creates == ExecAll("create", t, 1)
        deletes == ExecAll("delete", t, 1)
    IN  [i \in 1..Len(files) |-> UpdateModification(files[i])]
        \o [i \in 1..Len(creates) |-> CreateModification(creates[i])]
        \o [i \in 1..Len(deletes) |-> DeleteModification(deletes[i])]

(***************************************************************************)
(* code-modifier: applyModifications and the disk it writes to.            *)
(* An absolute path is the sequence of its segments, each a text; the disk *)
(* is the set of its directories and the content of each of its files.     *)
(***************************************************************************)
ProjectPath == << <<"proj">> >>

\* the segments of a path text
RECURSIVE SplitPath(_, _, _)
SplitPath(t, cur, acc) ==
    IF t = <<>> THEN Append(acc, cur)
    ELSE IF Head(t) = SLASH THEN SplitPath(Tail(t), <<>>, Append(acc, cur))
    ELSE SplitPath(Tail(t), Append(cur, Head(t)), acc)

\* path.normalize of an absolute path: '..' removes the segment before it
RECURSIVE NormalizeSegments(_, _)
NormalizeSegments(segs, acc) ==
    IF segs = <<>> THEN acc
    ELSE IF Head(segs) \in {<<>>, <<".">>} THEN NormalizeSegments(Tail(segs), acc)
    ELSE IF Head(segs) = <<"..">>
         THEN NormalizeSegments(Tail(segs), SubSeq(acc, 1, Len(acc) - 1))
    ELSE NormalizeSegments(Tail(segs), Append(acc, Head(segs)))

\* path.join(projectPath, filePath)
Join(projectPath, filePath) ==
    NormalizeSegments(projectPath \o SplitPath(filePath, <<>>, <<>>), <<>>)

\* path.dirname
Dirname(p) == SubSeq(p, 1, Len(p) - 1)

Disk(files, dirs) == [files |-> files, dirs |-> dirs]

Done(disk) == [ok |-> TRUE, disk |-> disk, error |-> <<>>]
Fails(disk, error) == [ok |-> FALSE, disk |-> disk, error |-> error]

PathExists(disk, p) == p \in DOMAIN disk.files \/ p \in disk.dirs

\* fs.ensureDir: fails when a file stands where a directory is wanted
EnsureDir(disk, dir) ==
    IF \E k \in 1..Len(dir) : SubSeq(dir, 1, k) \in DOMAIN disk.files
    THEN Fails(disk, <<"ENOTDIR: not a directory, mkdir">>)
    ELSE Done(Disk(disk.files, disk.dirs \cup {SubSeq(dir, 1, k) : k \in 0..Len(dir)}))

\* fs.writeFile
WriteFile(disk, p, content) ==
    IF p \in disk.dirs
    THEN Fails(disk, <<"EISDIR: illegal operation on a directory, open">>)
    ELSE Done(Disk((p :> content) @@ disk.files, disk.dirs))

\* fs.unlink
Unlink(disk, p) ==
    IF p \in disk.dirs
    THEN Fails(disk, <<"EISDIR: illegal operation on a directory, unlink">>)
    ELSE Done(Disk([q \in DOMAIN disk.files \ {p} |-> disk.files[q]], disk.dirs))

IsInfix(part, t) ==
    \E i \in 0..(Len(t) - Len(part)) : SubSeq(t, i + 1, i + Len(part)) = part

\* variant: the new content is appended whatever the file holds
mergeCodeAppends(existingContent, newContent) ==
    IF existingContent = <<>> THEN newContent
    ELSE IF newContent = <<>> THEN existingContent
    ELSE existingContent \o <<NL, NL>> \o newContent

mergeCode(existingContent, newContent) ==
    IF existingContent = <<>> THEN newContent
    ELSE IF newContent = <<>> THEN existingContent
    ELSE IF IsInfix(Trim(newContent), existingContent) THEN existingContent
    ELSE existingContent \o <<NL, NL>> \o newContent

createFile(disk, filePath, content) == WriteFile(disk, filePath, content)

updateFile(disk, filePath, newContent, method) ==
    IF filePath \in disk.dirs
    THEN Fails(disk, <<"EISDIR: illegal operation on a directory, read">>)
    ELSE LET currentContent ==
                 IF filePath \in DOMAIN disk.files THEN disk.files[filePath] ELSE <<>>
             safeNewContent == IF newContent = Absent THEN <<>> ELSE newContent[1]
             chosen == IF method = Absent THEN "replace" ELSE method[1]
             updatedContent ==
                 CASE chosen = "replace" -> safeNewContent
                   [] chosen = "append" -> currentContent \o safeNewContent
                   [] chosen = "prepend" -> safeNewContent \o currentContent
                   [] chosen = "merge" -> mergeCode(currentContent, safeNewContent)
                   [] OTHER -> currentContent
         IN  WriteFile(disk, filePath, updatedContent)

deleteFile(disk, filePath) ==
    IF PathExists(disk, filePath) THEN Unlink(disk, filePath) ELSE Done(disk)

\* validateModification: the message of the error it throws, none when it passes
validateModification(modification) ==
    IF modification.type \in {"create", "update"} /\ modification.content = Absent
    THEN Present(<<"Content is required for", modification.type,
                   "modification type in file:">> \o modification.filePath)
    ELSE Absent

ItemDone(disk) == [threw |-> FALSE, unknown |-> FALSE, disk |-> disk, error |-> <<>>]
ItemThrew(disk, error) == [threw |-> TRUE, unknown |-> FALSE, disk |-> disk, error |-> error]
ItemUnknown(disk) == [threw |-> FALSE, unknown |-> TRUE, disk |-> disk, error |-> <<>>]

ItemOutcome(r) == IF r.ok THEN ItemDone(r.disk) ELSE ItemThrew(r.disk, r.error)

\* variant: the directory is prepared before the modification is validated
ApplyOneEnsuresFirst(disk, modification) ==
    LET invalid == validateModification(modification)
        filePath == Join(ProjectPath, modification.filePath)
        ensured == EnsureDir(disk, Dirname(filePath))
    IN  IF ~ensured.ok THEN ItemThrew(disk, ensured.error)
        ELSE IF invalid # Absent THEN ItemThrew(ensured.disk, invalid[1])
        ELSE CASE modification.type = "create" ->
                      ItemOutcome(createFile(ensured.disk, filePath, modification.content[1]))
               [] modification.type = "update" ->
                      ItemOutcome(updateFile(ensured.disk, filePath, modification.content,
                                             modification.method))
               [] modification.type = "delete" ->
                      ItemOutcome(deleteFile(ensured.disk, filePath))
               [] OTHER -> ItemUnknown(ensured.disk)

\* the body of the try block for one modification
ApplyOne(disk, modification) ==
    LET invalid == validateModification(modification)
        filePath == Join(ProjectPath, modification.filePath)
        ensured == EnsureDir(disk, Dirname(filePath))
    IN  IF invalid # Absent THEN ItemThrew(disk, invalid[1])
        ELSE IF ~ensured.ok THEN ItemThrew(disk, ensured.error)
        ELSE CASE modification.type = "create" ->
                      ItemOutcome(createFile(ensured.disk, filePath, modification.content[1]))
               [] modification.type = "update" ->
                      ItemOutcome(updateFile(ensured.disk, filePath, modification.content,
                                             modification.method))
               [] modification.type = "delete" ->
                      ItemOutcome(deleteFile(ensured.disk, filePath))
               [] OTHER -> ItemUnknown(ensured.disk)

\* variant: the path of the item is not recorded
PushedNothing(res, modification) == res

\* result.modifiedFiles.push(modification.filePath)
Pushed(res, modification) ==
    [res EXCEPT !.modifiedFiles = Append(@, modification.filePath)]

\* variant: the path of an item of unknown type is recorded as well
UnknownTypeAlsoPushed(res, modification) ==
    [res EXCEPT !.errors = Append(@, <<"Unknown modification type:", modification.type>>),
                !.success = FALSE,
                !.modifiedFiles = Append(@, modification.filePath)]

\* the default branch of the switch
UnknownType(res, modification) ==
    [res EXCEPT !.errors = Append(@, <<"Unknown modification type:", modification.type>>),
                !.success = FALSE]

\* variant: the catch block records the error and leaves success as it is
CaughtKeepsSuccess(res, modification, message) ==
    [res EXCEPT !.errors = Append(@, <<"Error modifying">> \o modification.filePath
                                      \o <<":">> \o message)]

\* the catch block
Caught(res, modification, message) ==
    [res EXCEPT !.errors = Append(@, <<"Error modifying">> \o modification.filePath
                                      \o <<":">> \o message),
                !.success = FALSE]

\* variant: the loop is left at the first item that throws
AfterItemAbort(i, n, threw) == IF threw THEN n ELSE i + 1

\* for (const modification of modifications): the loop goes on to the next item
AfterItem(i, n, threw) == i + 1

\* the summary set after the loop
Summary(res) ==
    IF res.success
    THEN <<"Successfully modified", ToString(Len(res.modifiedFiles)), "file(s)">>
    ELSE <<"Partially completed:", ToString(Len(res.errors)), "error(s) occurred">>

(***************************************************************************)
(* What the AI may answer, and the batches a caller may hand over.         *)
(***************************************************************************)
MaxPieces == 2
MaxBatch == 3

Body == <<SP, "new", NL>>

Prose == [kind |-> "prose", keyword |-> "", path |-> <<>>, tag |-> <<>>]
Block(tag) == [kind |-> "block", keyword |-> "", path |-> <<>>, tag |-> tag]
CreateDirective(keyword, path, tag) ==
    [kind |-> "create", keyword |-> keyword, path |-> path, tag |-> tag]
DeleteDirective(keyword, path) ==
    [kind |-> "delete", keyword |-> keyword, path |-> path, tag |-> <<>>]

\* what may follow an opening fence: nothing, a language, a file path
BlockTags ==
    {<<>>, <<"js">>, <<"a.txt">>, <<"x.js">>, <<"dir", SLASH, "n.txt">>,
     <<"..", SLASH, "n.txt">>}
QuotedPaths == {<<"a.txt">>, <<"Old.txt">>}

Pieces ==
    {Prose}
    \cup {Block(tag) : tag \in BlockTags}
    \cup {CreateDirective(k, p, tag) :
            k \in {"Create file ", "CREATE FILE "}, p \in QuotedPaths,
            tag \in {<<>>, <<"js">>}}
    \cup {DeleteDirective(k, p) :
            k \in {"Delete file ", "delete file ", "DELETE FILE "}, p \in QuotedPaths}

FencedBlock(tag) == <<FENCE>> \o tag \o <<NL>> \o Body \o <<FENCE, NL>>

\* the text of a piece
Render(piece) ==
    CASE piece.kind = "prose" -> <<"hello", NL>>
      [] piece.kind = "block" -> FencedBlock(piece.tag)
      [] piece.kind = "create" ->
             <<piece.keyword, QUOTE>> \o piece.path
             \o <<QUOTE, IF piece.keyword = "CREATE FILE " THEN " WITH CONTENT:"
                         ELSE WithContent, NL>>
             \o FencedBlock(piece.tag)
      [] piece.kind = "delete" -> <<piece.keyword, QUOTE>> \o piece.path \o <<QUOTE, NL>>

RECURSIVE RenderAll(_)
RenderAll(ps) == IF ps = <<>> THEN <<>> ELSE Render(Head(ps)) \o RenderAll(Tail(ps))

Responses == UNION { [1..n -> Pieces] : n \in 0..MaxPieces }

BatchPaths == {<<"a.txt">>, <<"a.txt", SLASH, "n.txt">>, <<"dir", SLASH, "n.txt">>}

BatchItems ==
    {[type |-> t, filePath |-> p, content |-> c, method |-> Absent] :
        t \in {"create", "update"}, p \in BatchPaths, c \in {Absent, Present(<<"new", NL>>)}}
    \cup {[type |-> "delete", filePath |-> p, content |-> Absent, method |-> Absent] :
            p \in BatchPaths}

Batches == UNION { [1..n -> BatchItems] : n \in 0..MaxBatch }

\* an item whose type is none of the three: a caller outside the type check
UntypedItem ==
    [type |-> "rename", filePath |-> <<"a.txt">>, content |-> Present(<<"new", NL>>),
     method |-> Absent]

AnyBatches == UNION { [1..n -> BatchItems \cup {UntypedItem}] : n \in 0..MaxBatch }

\* updates with a method, on the file a.txt and on a file that does not exist;
\* a replace with empty content and a delete give the empty and the missing file
UpdateContents == {<<"old">>, <<"new", NL>>, <<>>, <<SP>>}

UpdateItems ==
    {[type |-> "update", filePath |-> p, content |-> Present(c), method |-> Present("merge")] :
        p \in {<<"a.txt">>, <<"dir", SLASH, "n.txt">>}, c \in UpdateContents}
    \cup {[type |-> "update", filePath |-> <<"a.txt">>, content |-> Present(<<"new", NL>>),
           method |-> Present(m)] : m \in {"append", "prepend", "patch"}}
    \cup {[type |-> "update", filePath |-> <<"a.txt">>, content |-> Present(<<>>),
           method |-> Present("replace")],
          [type |-> "delete", filePath |-> <<"a.txt">>, content |-> Absent, method |-> Absent]}

UpdateBatches == UNION { [1..n -> UpdateItems] : n \in 0..MaxBatch }

\* the project on the disk: the file a.txt and the directory dir
InitialFiles == (ProjectPath \o << <<"a.txt">> >>) :> <<"old", NL>>
InitialDirs == {<<>>, ProjectPath, ProjectPath \o << <<"dir">> >>}


(***************************************************************************)
(* State.                                                                  *)
(***************************************************************************)
VARIABLES
    pc,                 \* where the call stands
    entry,              \* the function the caller invoked: "streamed" or "buffered"
    requests,           \* the HTTP requests sent so far, in order
    attempt,            \* loop counter of getResponseWithRetry
    lastError,          \* lastError of getResponseWithRetry
    delays,             \* the delays slept so far (ms), in order
    outcomes,           \* how each getResponse call of the retry loop ended
    retryResult,        \* what getResponseWithRetry returned or threw
    streamError,        \* the error caught by the outer catch of getStreamedResponse
    wire,               \* the part of the stream the reader has not delivered yet
    streamText,         \* the whole text of the body of the streamed answer
    contentType,        \* the content-type of the streamed answer
    buffer,             \* buffer of the decoder
    chunks,             \* the arguments of the onChunk calls, in order
    aiResponseContent,  \* aiResponseContent of getStreamedResponse
    readerLocked,       \* the stream reader holds its lock
    released,           \* number of releaseLock calls
    timerArmed,         \* an abort timer is pending for the request in flight
    elapsed,            \* ticks since the request in flight was sent
    result              \* what the call returned or threw

retryVars == <<attempt, lastError, delays, outcomes, retryResult>>
decoderVars == <<wire, streamText, contentType, buffer, readerLocked, released>>
clientVars == <<pc, entry, requests, retryVars, streamError, decoderVars, chunks,
                aiResponseContent, timerArmed, elapsed, result>>

\* the state of code-modifier: parseModificationsFromResponse, applyModifications
VARIABLES
    mpc,                \* where the code-modifier call stands
    pieces,             \* the parts the response of the AI was written from
    aiResponse,         \* the text handed to parseModificationsFromResponse
    modifications,      \* what parseModificationsFromResponse returned
    batch,              \* the modifications handed to applyModifications
    index,              \* number of items of the batch the loop has processed
    modResult,          \* result of applyModifications
    itemThrew,          \* for each processed item, whether it ended in an error
    fsFiles,            \* the files of the disk: path |-> content
    fsDirs              \* the directories of the disk

modVars == <<mpc, pieces, aiResponse, modifications, batch, index, modResult, itemThrew,
             fsFiles, fsDirs>>

\* the state of a chat session: startChatSession and its chatLoop
VARIABLES
    spc,                \* where the session stands
    streaming,          \* enableStreaming
    messages,           \* the transcript: the messages array of the session
    turn,               \* number of user inputs taken so far
    inputs,             \* the user inputs, in order
    turnStart,          \* the transcript as it was when the last input was taken
    turnOutcomes,       \* how each finished turn ended: "ok" or "failed"
    sent,               \* the HTTP requests of the session, with their bodies
    inFlight,           \* number of HTTP requests sent and not yet ended
    sessAttempt,        \* attempt of getResponseWithRetry within the turn
    hasProject,         \* projectPath && projectAnalysis
    confirms            \* the answers to askUserConfirmation, with their turns

sessVars == <<spc, streaming, messages, turn, inputs, turnStart, turnOutcomes, sent,
              inFlight, sessAttempt, hasProject, confirms>>

vars == <<clientVars, modVars, sessVars>>

NoResult == [kind |-> "none", content |-> <<>>, error |-> NoError]
Return(content) == [kind |-> "return", content |-> content, error |-> NoError]
Throw(error) == [kind |-> "throw", content |-> <<>>, error |-> error]

ClientInit ==
    /\ pc = "idle"
    /\ entry = "none"
    /\ requests = <<>>
    /\ attempt = 0
    /\ lastError = NoError
    /\ delays = <<>>
    /\ outcomes = <<>>
    /\ retryResult = NoResult
    /\ streamError = NoError
    /\ wire = <<>>
    /\ streamText = <<>>
    /\ contentType = NoType
    /\ buffer = <<>>
    /\ chunks = <<>>
    /\ aiResponseContent = <<>>
    /\ readerLocked = FALSE
    /\ released = 0
    /\ timerArmed = FALSE
    /\ elapsed = 0
    /\ result = NoResult

\* an empty result: ModificationResult before the loop
NewResult == [success |-> TRUE, message |-> <<>>, modifiedFiles |-> <<>>, errors |-> <<>>]

\* code-modifier has not been called
ModIdle ==
    /\ mpc = "idle"
    /\ pieces = <<>>
    /\ aiResponse = <<>>
    /\ modifications = <<>>
    /\ batch = <<>>
    /\ index = 0
    /\ modResult = NewResult
    /\ itemThrew = <<>>
    /\ fsFiles = InitialFiles
    /\ fsDirs = InitialDirs

\* no session has been started
SessIdle ==
    /\ spc = "off"
    /\ streaming = TRUE
    /\ messages = <<>>
    /\ turn = 0
    /\ inputs = <<>>
    /\ turnStart = <<>>
    /\ turnOutcomes = <<>>
    /\ sent = <<>>
    /\ inFlight = 0
    /\ sessAttempt = 0
    /\ hasProject = FALSE
    /\ confirms = <<>>

Init == ClientInit /\ ModIdle /\ SessIdle

(***************************************************************************)
(* getResponseWithRetry and getResponse.                                   *)
(***************************************************************************)
\* fetch(...) of getResponse: no AbortController, no timer
SendBuffered ==
    /\ pc' = "bufFetch"
    /\ requests' = Append(requests, "buffered")
    /\ timerArmed' = FALSE
    /\ elapsed' = 0

\* getResponseWithRetry throws error to its caller
RetryThrows(error) ==
    /\ pc' = "thrown"
    /\ retryResult' = Throw(error)
    /\ result' = IF entry = "streamed"
                 THEN Throw(FallbackRaises(streamError, error))
                 ELSE Throw(error)
    /\ UNCHANGED <<requests, chunks>>
    /\ timerArmed' = FALSE
    /\ elapsed' = 0

\* variant: the fallback content is returned without the onChunk call
RetryReturnsSilently(content) ==
    /\ pc' = "returned"
    /\ retryResult' = Return(content)
    /\ result' = Return(content)
    /\ UNCHANGED <<requests, attempt, lastError, delays, chunks>>
    /\ timerArmed' = FALSE
    /\ elapsed' = 0

\* getResponseWithRetry returns content to its caller
RetryReturns(content) ==
    /\ pc' = "returned"
    /\ retryResult' = Return(content)
    /\ result' = Return(content)
    /\ chunks' = IF entry = "streamed" THEN Append(chunks, content) ELSE chunks
    /\ UNCHANGED <<requests, attempt, lastError, delays>>
    /\ timerArmed' = FALSE
    /\ elapsed' = 0

\* variant: the loop test is attempt < maxRetries
NextAttemptStopsEarly ==
    /\ attempt' = attempt + 1
    /\ IF attempt + 1 < MaxRetries
       THEN SendBuffered /\ UNCHANGED <<result, retryResult, chunks>>
       ELSE RetryThrows(lastError')

\* variant: the loop test is attempt <= maxRetries + 1
NextAttemptOneMore ==
    /\ attempt' = attempt + 1
    /\ IF attempt + 1 <= MaxRetries + 1
       THEN SendBuffered /\ UNCHANGED <<result, retryResult, chunks>>
       ELSE RetryThrows(lastError')

\* attempt++ and the loop test
NextAttempt ==
    /\ attempt' = attempt + 1
    /\ IF attempt + 1 <= MaxRetries
       THEN SendBuffered /\ UNCHANGED <<result, retryResult, chunks>>
       ELSE RetryThrows(lastError')

\* the catch block of the loop
AttemptFails(error, status) ==
    /\ outcomes' = Append(outcomes, [ok |-> FALSE, status |-> status,
                                     content |-> <<>>, error |-> error])
    /\ lastError' = LastErrorAfter(lastError, error)
    /\ IF NonRetryable(error)
       THEN RetryThrows(error) /\ UNCHANGED <<attempt, delays>>
       ELSE IF SleepsAfter(attempt)
       THEN /\ pc' = "sleep"
            /\ delays' = Append(delays, BackoffDelay(attempt))
            /\ timerArmed' = FALSE
            /\ elapsed' = 0
            /\ UNCHANGED <<attempt, requests, result, retryResult, chunks>>
       ELSE NextAttempt /\ UNCHANGED delays

AttemptSucceeds(content) ==
    /\ outcomes' = Append(outcomes, [ok |-> TRUE, status |-> "200",
                                     content |-> content, error |-> NoError])
    /\ RetryReturns(content)

CallBuffered ==
    /\ pc = "idle"
    /\ entry' = "buffered"
    /\ attempt' = 1
    /\ SendBuffered
    /\ UNCHANGED <<lastError, delays, outcomes, retryResult, streamError, decoderVars,
                   chunks, aiResponseContent, result>>
    /\ UNCHANGED <<modVars, sessVars>>

BufFetchRejects ==
    /\ pc = "bufFetch"
    /\ AttemptFails(NetworkError(Len(requests)), "none")
    /\ UNCHANGED <<entry, streamError, decoderVars, aiResponseContent>>
    /\ UNCHANGED <<modVars, sessVars>>

BufHttpError ==
    /\ pc = "bufFetch"
    /\ \E status \in ErrorStatuses, errorText \in ErrorBodies :
          AttemptFails(HttpError(status, errorText, Len(requests)), status)
    /\ UNCHANGED <<entry, streamError, decoderVars, aiResponseContent>>
    /\ UNCHANGED <<modVars, sessVars>>

BufOk ==
    /\ pc = "bufFetch"
    /\ \E a \in OkAnswers :
          LET r == GetResponseContent(a.contentType, a.body) IN
          IF r.ok THEN AttemptSucceeds(r.content)
          ELSE AttemptFails(SyntaxError(Len(requests)), "200")
    /\ UNCHANGED <<entry, streamError, decoderVars, aiResponseContent>>
    /\ UNCHANGED <<modVars, sessVars>>

\* the delay is over: setTimeout resolves
Wake ==
    /\ pc = "sleep"
    /\ UNCHANGED <<entry, lastError, delays, outcomes, streamError, decoderVars,
                   aiResponseContent>>
    /\ NextAttempt
    /\ UNCHANGED <<modVars, sessVars>>


(***************************************************************************)
(* getStreamedResponse.                                                    *)
(***************************************************************************)
\* fetch(..., { signal }) after setTimeout(() => controller.abort(), timeout)
CallStreamed ==
    /\ pc = "idle"
    /\ entry' = "streamed"
    /\ pc' = "streamFetch"
    /\ requests' = Append(requests, "streamed")
    /\ timerArmed' = TRUE
    /\ elapsed' = 0
    /\ UNCHANGED <<retryVars, streamError, decoderVars, chunks, aiResponseContent, result>>
    /\ UNCHANGED <<modVars, sessVars>>

\* the outer catch: the fallback starts with the first buffered attempt.
\* A timer left pending by a rejected fetch belongs to the settled request
\* and aborts nothing.
EnterFallback(error) ==
    /\ streamError' = error
    /\ attempt' = 1
    /\ SendBuffered
    /\ UNCHANGED <<entry, lastError, delays, outcomes, retryResult, result>>

StreamFetchRejects ==
    /\ pc = "streamFetch"
    /\ EnterFallback(NetworkError(Len(requests)))
    /\ UNCHANGED <<decoderVars, chunks, aiResponseContent>>
    /\ UNCHANGED <<modVars, sessVars>>

\* the timer fires while fetch is pending: controller.abort()
StreamTimeout ==
    /\ pc = "streamFetch"
    /\ timerArmed
    /\ elapsed >= Timeout
    /\ EnterFallback(AbortError(Len(requests)))
    /\ UNCHANGED <<decoderVars, chunks, aiResponseContent>>
    /\ UNCHANGED <<modVars, sessVars>>

\* if (!response.ok) { ... throw new AiCommunicationError(errorMessage) }
StreamHttpError ==
    /\ pc = "streamFetch"
    /\ \E status \in ErrorStatuses, errorText \in ErrorBodies :
          EnterFallback(HttpError(status, errorText, Len(requests)))
    /\ UNCHANGED <<decoderVars, chunks, aiResponseContent>>
    /\ UNCHANGED <<modVars, sessVars>>

\* the whole body is read as text and handed over as one fragment: the
\* content type is not a stream, or the body has no reader
StreamWholeBody ==
    /\ pc = "streamFetch"
    /\ \E ct \in ContentTypes, text \in Streams, hasReader \in BOOLEAN :
          /\ IsStreamType(ct) => ~hasReader
          /\ contentType' = ct
          /\ streamText' = text
          /\ chunks' = Append(chunks, text)
          /\ aiResponseContent' = aiResponseContent \o text
          /\ result' = Return(aiResponseContent \o text)
    /\ pc' = "returned"
    /\ timerArmed' = FALSE
    /\ elapsed' = 0
    /\ UNCHANGED <<entry, requests, retryVars, streamError, wire, buffer, readerLocked,
                   released>>
    /\ UNCHANGED <<modVars, sessVars>>

\* variant: the finally block does not release the lock
ReleaseLockSkipped(n) == n

\* finally { reader.releaseLock() }
ReleaseLock(n) == n + 1

\* a 2xx answer of type text/event-stream or text/plain: clearTimeout, getReader
StreamOpens ==
    /\ pc = "streamFetch"
    /\ \E ct \in ContentTypes, text \in Streams :
          /\ IsStreamType(ct)
          /\ contentType' = ct
          /\ wire' = text
          /\ streamText' = text
    /\ pc' = "streamRead"
    /\ buffer' = <<>>
    /\ readerLocked' = TRUE
    /\ timerArmed' = FALSE
    /\ UNCHANGED <<entry, requests, retryVars, streamError, released, chunks,
                   aiResponseContent, elapsed, result>>
    /\ UNCHANGED <<modVars, sessVars>>

\* reader.read() delivers the next k tokens; the complete lines are decoded
Read ==
    /\ pc = "streamRead"
    /\ \E k \in 1..Len(wire) :
          LET lines == Split(buffer \o SubSeq(wire, 1, k))
              frags == ProcessLines(SubSeq(lines, 1, Len(lines) - 1))
          IN  /\ wire' = SubSeq(wire, k + 1, Len(wire))
              /\ buffer' = CarryOver(lines)
              /\ chunks' = chunks \o frags
              /\ aiResponseContent' = aiResponseContent \o Concat(frags)
    /\ UNCHANGED <<pc, entry, requests, retryVars, streamError, streamText, contentType,
                   readerLocked, released, timerArmed, elapsed, result>>
    /\ UNCHANGED <<modVars, sessVars>>

\* reader.read() reports done: the buffer is flushed, the lock released
ReadDone ==
    /\ pc = "streamRead"
    /\ wire = <<>>
    /\ LET frags == FlushBuffer(buffer) IN
          /\ chunks' = chunks \o frags
          /\ aiResponseContent' = aiResponseContent \o Concat(frags)
          /\ result' = Return(aiResponseContent \o Concat(frags))
    /\ pc' = "returned"
    /\ readerLocked' = FALSE
    /\ released' = ReleaseLock(released)
    /\ elapsed' = 0
    /\ UNCHANGED <<entry, requests, retryVars, streamError, wire, streamText, contentType,
                   buffer, timerArmed>>
    /\ UNCHANGED <<modVars, sessVars>>

\* reader.read() rejects (the connection drops): finally releases the lock,
\* the outer catch starts the fallback.  The locals of the try block (the
\* decoder's buffer, aiResponseContent) are dead from here on; the fragments
\* already handed to onChunk stay delivered.
ReadError ==
    /\ pc = "streamRead"
    /\ EnterFallback(NetworkError(Len(requests)))
    /\ readerLocked' = FALSE
    /\ released' = ReleaseLock(released)
    /\ wire' = <<>>
    /\ streamText' = <<>>
    /\ contentType' = NoType
    /\ buffer' = <<>>
    /\ aiResponseContent' = <<>>
    /\ UNCHANGED chunks
    /\ UNCHANGED <<modVars, sessVars>>

\* time passes while a request is pending; an armed timer fires at Timeout
Tick ==
    /\ pc \in {"streamFetch", "streamRead", "bufFetch"}
    /\ elapsed <= Timeout
    /\ timerArmed => elapsed < Timeout
    /\ elapsed' = elapsed + 1
    /\ UNCHANGED <<pc, entry, requests, retryVars, streamError, decoderVars, chunks,
                   aiResponseContent, timerArmed, result>>
    /\ UNCHANGED <<modVars, sessVars>>

Next ==
    \/ CallBuffered
    \/ BufFetchRejects
    \/ BufHttpError
    \/ BufOk
    \/ Wake
    \/ CallStreamed
    \/ StreamFetchRejects
    \/ StreamTimeout
    \/ StreamHttpError
    \/ StreamWholeBody
    \/ StreamOpens
    \/ Read
    \/ ReadDone
    \/ ReadError
    \/ Tick

Spec == Init /\ [][Next]_vars

\* Spec with the fairness that the event loop and the network give: the
\* fetch of a request settles, the read of a body ends or throws, the
\* back-off timer fires
SpecFair ==
    /\ Init /\ [][Next]_vars
    /\ WF_vars(StreamFetchRejects \/ StreamTimeout \/ StreamHttpError
                 \/ StreamWholeBody \/ StreamOpens)
    /\ WF_vars(ReadDone \/ ReadError)
    /\ WF_vars(BufFetchRejects \/ BufHttpError \/ BufOk)
    /\ WF_vars(Wake)

(***************************************************************************)
(* code-modifier at work: the AI answers, the answer is parsed, and the    *)
(* modifications found (or a batch of the caller's own) are applied, one   *)
(* item per step.                                                          *)
(***************************************************************************)
\* the answer of the AI arrives
Respond ==
    /\ mpc = "idle"
    /\ \E ps \in Responses :
          /\ pieces' = ps
          /\ aiResponse' = RenderAll(ps)
    /\ mpc' = "answered"
    /\ UNCHANGED <<modifications, batch, index, modResult, itemThrew, fsFiles, fsDirs>>
    /\ UNCHANGED <<clientVars, sessVars>>

\* const modifications = parseModificationsFromResponse(aiResponseContent)
Parse ==
    /\ mpc = "answered"
    /\ modifications' = parseModificationsFromResponse(aiResponse)
    /\ mpc' = "parsed"
    /\ UNCHANGED <<pieces, aiResponse, batch, index, modResult, itemThrew, fsFiles, fsDirs>>
    /\ UNCHANGED <<clientVars, sessVars>>

\* the modifications found are applied: applyModifications(projectPath, modifications)
ApplyParsed ==
    /\ mpc = "parsed"
    /\ modifications # <<>>
    /\ batch' = modifications
    /\ index' = 0
    /\ modResult' = NewResult
    /\ itemThrew' = <<>>
    /\ mpc' = "applying"
    /\ UNCHANGED <<pieces, aiResponse, modifications, fsFiles, fsDirs>>
    /\ UNCHANGED <<clientVars, sessVars>>

\* applyModifications called with a batch of the caller's
CallApply ==
    /\ mpc = "idle"
    /\ \E b \in Batches : batch' = b
    /\ index' = 0
    /\ modResult' = NewResult
    /\ itemThrew' = <<>>
    /\ mpc' = "applying"
    /\ UNCHANGED <<pieces, aiResponse, modifications, fsFiles, fsDirs>>
    /\ UNCHANGED <<clientVars, sessVars>>

\* applyModifications called with a batch of updates
CallUpdate ==
    /\ mpc = "idle"
    /\ \E b \in UpdateBatches : batch' = b
    /\ index' = 0
    /\ modResult' = NewResult
    /\ itemThrew' = <<>>
    /\ mpc' = "applying"
    /\ UNCHANGED <<pieces, aiResponse, modifications, fsFiles, fsDirs>>
    /\ UNCHANGED <<clientVars, sessVars>>

\* one turn of the loop: the item is applied, or its error is caught
ApplyItem ==
    /\ mpc = "applying"
    /\ index < Len(batch)
    /\ LET modification == batch[index + 1]
           r == ApplyOne(Disk(fsFiles, fsDirs), modification)
       IN  /\ modResult' = IF r.threw THEN Caught(modResult, modification, r.error)
                           ELSE IF r.unknown THEN UnknownType(modResult, modification)
                           ELSE Pushed(modResult, modification)
           /\ itemThrew' = Append(itemThrew, r.threw \/ r.unknown)
           /\ fsFiles' = r.disk.files
           /\ fsDirs' = r.disk.dirs
           /\ index' = AfterItem(index, Len(batch), r.threw)
    /\ UNCHANGED <<mpc, pieces, aiResponse, modifications, batch>>
    /\ UNCHANGED <<clientVars, sessVars>>

\* the loop is over: the summary is written and the result returned
ApplyReturn ==
    /\ mpc = "applying"
    /\ index >= Len(batch)
    /\ modResult' = [modResult EXCEPT !.message = Summary(modResult)]
    /\ mpc' = "applied"
    /\ UNCHANGED <<pieces, aiResponse, modifications, batch, index, itemThrew, fsFiles,
                   fsDirs>>
    /\ UNCHANGED <<clientVars, sessVars>>

NextMod ==
    \/ Respond
    \/ Parse
    \/ ApplyParsed
    \/ CallApply
    \/ ApplyItem
    \/ ApplyReturn

SpecMod == Init /\ [][NextMod]_vars

\* applyModifications called with a batch that may hold items of unknown type
CallAny ==
    /\ mpc = "idle"
    /\ \E b \in AnyBatches : batch' = b
    /\ index' = 0
    /\ modResult' = NewResult
    /\ itemThrew' = <<>>
    /\ mpc' = "applying"
    /\ UNCHANGED <<pieces, aiResponse, modifications, fsFiles, fsDirs>>
    /\ UNCHANGED <<clientVars, sessVars>>

NextApply ==
    \/ CallAny
    \/ ApplyItem
    \/ ApplyReturn

SpecApply == Init /\ [][NextApply]_vars

NextUpdate ==
    \/ CallUpdate
    \/ ApplyItem
    \/ ApplyReturn

SpecUpdate == Init /\ [][NextUpdate]_vars

(***************************************************************************)
(* The chat session: startChatSession and its chatLoop, at the grain of    *)
(* whole HTTP requests.  What a request does inside (decoding, timer,      *)
(* classification of the failure) is the client above; here a request is   *)
(* sent with a body and later ends, with an answer or with a failure.      *)
(***************************************************************************)
MaxTurns == 2

SystemPrompt == [role |-> "system", content |-> <<"prompt">>]
UserMessage(text) == [role |-> "user", content |-> text]
AssistantMessage(text) == [role |-> "assistant", content |-> text]

\* what the user may type at the prompt, apart from exit and quit
UserInputs == {<<"hi">>, <<"fix">>}

\* what a request that succeeds may answer
Answers == {<<>>, <<"A">>, FencedBlock(<<"x.js">>)}

\* variant: only the newest message is sent
RequestBodyLastOnly(msgs) == <<msgs[Len(msgs)]>>

\* body: JSON.stringify({ messages, mode }): the whole array, as it stands
RequestBody(msgs) == msgs

\* variant: a request that ended is still counted as open
EndedStaysOpen(n) == n

\* a request ended: its await returned or threw
Ended(n) == n - 1

\* fetch is called
Started(n) == n + 1

\* variant: the inner catch ends the loop
AfterFailedTurnExit == "exited"

\* the inner catch shows the error and falls through to await chatLoop()
AfterFailedTurn == "prompt"

\* the request record put on the wire
Request(kind, msgs, t) == [kind |-> kind, body |-> RequestBody(msgs), turn |-> t]

\* startChatSession: builds the messages array and enters chatLoop
StartSession ==
    /\ spc = "off"
    /\ \E s \in BOOLEAN : streaming' = s
    /\ messages' = <<SystemPrompt>>
    /\ turnStart' = <<SystemPrompt>>
    /\ spc' = "prompt"
    /\ UNCHANGED <<turn, inputs, turnOutcomes, sent, inFlight, sessAttempt>>
    /\ UNCHANGED <<clientVars, modVars>>
    /\ \E p \in BOOLEAN : hasProject' = p
    /\ UNCHANGED confirms

\* the user types exit or quit: rl.close() and return
UserExit ==
    /\ spc = "prompt"
    /\ spc' = "exited"
    /\ UNCHANGED <<streaming, messages, turn, inputs, turnStart, turnOutcomes, sent,
                   inFlight, sessAttempt>>
    /\ UNCHANGED <<clientVars, modVars>>
    /\ UNCHANGED <<hasProject, confirms>>

\* the user types a message: it is pushed, and the first request of the
\* turn is sent (streamed, or attempt 1 of getResponseWithRetry)
UserInput ==
    /\ spc = "prompt"
    /\ turn < MaxTurns
    /\ \E text \in UserInputs :
        /\ messages' = Append(messages, UserMessage(text))
        /\ inputs' = Append(inputs, text)
    /\ turnStart' = messages
    /\ turn' = turn + 1
    /\ sent' = Append(sent, Request(IF streaming THEN "streamed" ELSE "buffered",
                                    messages', turn'))
    /\ inFlight' = Started(inFlight)
    /\ sessAttempt' = IF streaming THEN 0 ELSE 1
    /\ spc' = IF streaming THEN "streamed" ELSE "buffered"
    /\ UNCHANGED <<streaming, turnOutcomes>>
    /\ UNCHANGED <<clientVars, modVars>>
    /\ UNCHANGED <<hasProject, confirms>>

\* the turn is completed: the assistant message is pushed; with a project the
\* answer is parsed, and when modifications are found the user is asked
\* whether to apply them; otherwise the loop recurs
TurnCompleted(answer) ==
    /\ messages' = Append(messages, AssistantMessage(answer))
    /\ turnOutcomes' = Append(turnOutcomes, "ok")
    /\ IF hasProject
       THEN /\ aiResponse' = answer
            /\ modifications' = parseModificationsFromResponse(answer)
            /\ spc' = IF modifications' # <<>> THEN "confirming" ELSE "prompt"
       ELSE /\ spc' = "prompt"
            /\ UNCHANGED <<aiResponse, modifications>>
    /\ UNCHANGED <<mpc, pieces, batch, index, modResult, itemThrew, fsFiles, fsDirs>>

\* the turn failed: the inner catch shows the error, the loop recurs
TurnFailed ==
    /\ messages' = messages
    /\ turnOutcomes' = Append(turnOutcomes, "failed")
    /\ spc' = AfterFailedTurn

\* getStreamedResponse returns: the streamed attempt delivered its text
StreamedReturns ==
    /\ spc = "streamed"
    /\ inFlight' = Ended(inFlight)
    /\ \E answer \in Answers : TurnCompleted(answer)
    /\ UNCHANGED <<streaming, turn, inputs, turnStart, sent, sessAttempt>>
    /\ UNCHANGED clientVars
    /\ UNCHANGED <<hasProject, confirms>>

\* the streamed attempt failed: the catch of getStreamedResponse calls
\* getResponseWithRetry, whose attempt 1 sends the buffered request
StreamedFails ==
    /\ spc = "streamed"
    /\ sent' = Append(sent, Request("buffered", messages, turn))
    /\ inFlight' = Started(Ended(inFlight))
    /\ sessAttempt' = 1
    /\ spc' = "buffered"
    /\ UNCHANGED <<streaming, messages, turn, inputs, turnStart, turnOutcomes>>
    /\ UNCHANGED <<clientVars, modVars>>
    /\ UNCHANGED <<hasProject, confirms>>

\* getResponse returns: the buffered attempt answered
BufferedReturns ==
    /\ spc = "buffered"
    /\ inFlight' = Ended(inFlight)
    /\ \E answer \in Answers : TurnCompleted(answer)
    /\ UNCHANGED <<streaming, turn, inputs, turnStart, sent, sessAttempt>>
    /\ UNCHANGED clientVars
    /\ UNCHANGED <<hasProject, confirms>>

\* getResponse throws: a failure that may be retried, with attempts left,
\* goes to sleep; a final failure or the last attempt fails the turn
BufferedFails ==
    /\ spc = "buffered"
    /\ inFlight' = Ended(inFlight)
    /\ \E final \in BOOLEAN :
        IF ~final /\ sessAttempt < MaxRetries
        THEN /\ spc' = "sleeping"
             /\ UNCHANGED <<messages, turnOutcomes>>
        ELSE TurnFailed
    /\ UNCHANGED <<streaming, turn, inputs, turnStart, sent, sessAttempt>>
    /\ UNCHANGED <<clientVars, modVars>>
    /\ UNCHANGED <<hasProject, confirms>>

\* the back-off delay has passed: the next attempt sends its request
SessionWake ==
    /\ spc = "sleeping"
    /\ sessAttempt' = sessAttempt + 1
    /\ sent' = Append(sent, Request("buffered", messages, turn))
    /\ inFlight' = Started(inFlight)
    /\ spc' = "buffered"
    /\ UNCHANGED <<streaming, messages, turn, inputs, turnStart, turnOutcomes>>
    /\ UNCHANGED <<clientVars, modVars>>
    /\ UNCHANGED <<hasProject, confirms>>

\* variant: every answer counts as a yes
IsYesAlways(answer) == TRUE

\* ['y', 'yes', 'Y', 'YES'].includes(answer.trim())
IsYes(answer) == Trim(answer) \in {<<"y">>, <<"yes">>, <<"Y">>, <<"YES">>}

\* what the user may answer to the confirmation
ConfirmAnswers == {<<"y">>, <<SP, "YES">>, <<"n">>, <<"Yes">>, <<>>}

\* the user answers the confirmation: on a yes applyModifications is called
\* with the modifications found, otherwise the loop recurs
Confirm ==
    /\ spc = "confirming"
    /\ \E answer \in ConfirmAnswers :
          /\ confirms' = Append(confirms, [turn |-> turn, answer |-> answer])
          /\ IF IsYes(answer)
             THEN /\ spc' = "applying"
                  /\ mpc' = "applying"
                  /\ batch' = modifications
                  /\ index' = 0
                  /\ modResult' = NewResult
                  /\ itemThrew' = <<>>
             ELSE /\ spc' = "prompt"
                  /\ UNCHANGED <<mpc, batch, index, modResult, itemThrew>>
    /\ UNCHANGED <<pieces, aiResponse, modifications, fsFiles, fsDirs>>
    /\ UNCHANGED <<streaming, messages, turn, inputs, turnStart, turnOutcomes, sent,
                   inFlight, sessAttempt, hasProject>>
    /\ UNCHANGED clientVars

\* applyModifications has returned: the message and the errors are shown,
\* the loop recurs
ApplyShown ==
    /\ spc = "applying"
    /\ mpc = "applied"
    /\ spc' = "prompt"
    /\ mpc' = "idle"
    /\ UNCHANGED <<pieces, aiResponse, modifications, batch, index, modResult, itemThrew,
                   fsFiles, fsDirs>>
    /\ UNCHANGED <<streaming, messages, turn, inputs, turnStart, turnOutcomes, sent,
                   inFlight, sessAttempt, hasProject, confirms>>
    /\ UNCHANGED clientVars

NextSession ==
    \/ StartSession
    \/ UserExit
    \/ UserInput
    \/ StreamedReturns
    \/ StreamedFails
    \/ BufferedReturns
    \/ BufferedFails
    \/ SessionWake
    \/ Confirm
    \/ ApplyItem
    \/ ApplyReturn
    \/ ApplyShown

SpecSession == Init /\ [][NextSession]_vars

(***************************************************************************)
(* Vocabulary of the properties.                                           *)
(***************************************************************************)
TerminalPhrases == {AuthFailed, DailyLimit, NoTokens}

\* the message carries one of the phrases that mark a failure as final
HasTerminalPhrase(error) == \E i \in 1..Len(error.message) : error.message[i] \in TerminalPhrases

\* the attempt failed with an error that may be retried
TransientFailure(o) == ~o.ok /\ ~HasTerminalPhrase(o.error)

BufferedRequests == Cardinality({i \in 1..Len(requests) : requests[i] = "buffered"})

Finished == pc \in {"returned", "thrown"}

LastOutcome == outcomes[Len(outcomes)]

(***************************************************************************)
(* C1.  getResponseWithRetry: when getResponse fails with a retryable      *)
(* error on its first N attempts, N < maxRetries, the wrapper goes on to   *)
(* attempt N+1, and when that attempt succeeds the wrapper returns exactly *)
(* that value, after exactly N+1 attempts, and raises no error.            *)
(***************************************************************************)
C1_RetryUntilSuccess ==
    /\ ( /\ outcomes # <<>>
         /\ Len(outcomes) < MaxRetries
         /\ \A i \in 1..Len(outcomes) : TransientFailure(outcomes[i]) )
       => ( /\ pc \in {"sleep", "bufFetch"}
            /\ retryResult.kind = "none" )
    /\ ( /\ outcomes # <<>>
         /\ LastOutcome.ok
         /\ \A i \in 1..(Len(outcomes) - 1) : TransientFailure(outcomes[i]) )
       => ( /\ pc = "returned"
            /\ retryResult = Return(LastOutcome.content)
            /\ attempt = Len(outcomes)
            /\ BufferedRequests = Len(outcomes) )

\* two transient failures, then the third attempt succeeds
C1_Witness ==
    /\ entry = "buffered"
    /\ pc = "returned"
    /\ Len(outcomes) = 3
    /\ TransientFailure(outcomes[1])
    /\ TransientFailure(outcomes[2])
    /\ result = Return(outcomes[3].content)

(***************************************************************************)
(* C2.  When an attempt fails with an error whose message contains         *)
(* 'Authentication failed', 'Daily free generation limit exceeded' or      *)
(* 'Insufficient tokens', the wrapper rethrows that same error at once:    *)
(* no later attempt is made and no delay is slept after that attempt.      *)
(***************************************************************************)
C2_TerminalErrorRethrown ==
    \A i \in 1..Len(outcomes) :
        (~outcomes[i].ok /\ HasTerminalPhrase(outcomes[i].error))
        => ( /\ i = Len(outcomes)
             /\ pc = "thrown"
             /\ retryResult = Throw(outcomes[i].error)
             /\ BufferedRequests = i
             /\ Len(delays) = i - 1 )

\* the second attempt fails with the quota phrase after one transient failure
C2_Witness ==
    /\ pc = "thrown"
    /\ Len(outcomes) = 2
    /\ Includes(outcomes[2].error.message, NoTokens)
    /\ delays = <<2000>>

(***************************************************************************)
(* C3.  An answer with status 401 or 403 to a buffered request ends the    *)
(* call: it is an authentication failure, no further attempt is made and   *)
(* exactly one request is sent, whatever the body is.                      *)
(***************************************************************************)
C3_AuthStatusNotRetried ==
    (outcomes # <<>> /\ outcomes[1].status \in {"401", "403"})
    => ( /\ pc = "thrown"
         /\ Len(outcomes) = 1
         /\ BufferedRequests = 1
         /\ delays = <<>> )

(***************************************************************************)
(* C4.  In every execution of getResponseWithRetry getResponse is invoked  *)
(* at most maxRetries times and at most maxRetries - 1 delays are slept.   *)
(***************************************************************************)
C4_AttemptBudget ==
    /\ BufferedRequests <= MaxRetries
    /\ Len(outcomes) <= MaxRetries
    /\ Len(delays) <= MaxRetries - 1

\* the whole budget is used: maxRetries requests, maxRetries - 1 delays
C4_Witness ==
    /\ Finished
    /\ BufferedRequests = MaxRetries
    /\ Len(delays) = MaxRetries - 1

(***************************************************************************)
(* C5.  Backoff: the delay slept after the k-th failed attempt is 2^k      *)
(* seconds (2s, then 4s), each delay doubles the one before, and no delay  *)
(* is slept after the final failed attempt.                                *)
(***************************************************************************)
C5_BackoffDoubles ==
    /\ \A k \in 1..Len(delays) :
          /\ delays[k] = (2 ^ k) * 1000
          /\ k > 1 => delays[k] = 2 * delays[k - 1]
          /\ k <= Len(outcomes) /\ ~outcomes[k].ok
    /\ delays \in {<<>>, <<2000>>, <<2000, 4000>>}
    /\ ~Finished => Len(delays) = Len(outcomes)
    /\ (Finished /\ outcomes # <<>>) => Len(delays) = Len(outcomes) - 1

\* the second delay is being slept
C5_Witness ==
    /\ pc = "sleep"
    /\ delays = <<2000, 4000>>

(***************************************************************************)
(* C6.  When all maxRetries attempts fail with retryable errors, the error *)
(* raised to the caller is the one thrown by the last attempt.             *)
(***************************************************************************)
C6_LastErrorRaised ==
    ( /\ Len(outcomes) = MaxRetries
      /\ \A i \in 1..MaxRetries : TransientFailure(outcomes[i]) )
    => ( /\ pc = "thrown"
         /\ retryResult = Throw(outcomes[MaxRetries].error)
         /\ entry = "buffered" => result = Throw(outcomes[MaxRetries].error) )

\* three transient failures of different kinds, the last one raised
C6_Witness ==
    /\ entry = "buffered"
    /\ pc = "thrown"
    /\ Len(outcomes) = MaxRetries
    /\ \A i \in 1..MaxRetries : TransientFailure(outcomes[i])
    /\ outcomes[1].error.cls # outcomes[MaxRetries].error.cls
    /\ result.error.req = Len(requests)


(***************************************************************************)
(* C7.  getStreamedResponse: when the streamed attempt has thrown and the  *)
(* retry-wrapped buffered fallback succeeds, the call returns the result   *)
(* of the fallback, hands its content to onChunk exactly once, and raises  *)
(* no error.                                                               *)
(***************************************************************************)
C7_FallbackResultDelivered ==
    [][ ( /\ entry = "streamed"
          /\ outcomes' # outcomes
          /\ outcomes'[Len(outcomes')].ok )
        => ( /\ streamError.cls # "none"
             /\ pc' = "returned"
             /\ result' = Return(outcomes'[Len(outcomes')].content)
             /\ result' = retryResult'
             /\ chunks' = Append(chunks, outcomes'[Len(outcomes')].content) ) ]_vars

\* the stream broke after a fragment had been delivered; the fallback
\* succeeded on its second attempt
C7_Witness ==
    /\ entry = "streamed"
    /\ pc = "returned"
    /\ streamError.cls = "TypeError"
    /\ released = 1
    /\ Len(outcomes) = 2
    /\ LastOutcome.ok
    /\ Len(chunks) = 2
    /\ chunks[2] = result.content

(***************************************************************************)
(* C8.  getStreamedResponse: when the streamed attempt and the fallback    *)
(* both fail and exactly one of the two errors is an authentication or     *)
(* quota failure, that error is the one raised, whichever attempt          *)
(* produced it.                                                            *)
(***************************************************************************)
AuthOrQuota(error) == HasTerminalPhrase(error) \/ error.status \in {"401", "403"}

C8_MoreSpecificErrorRaised ==
    (entry = "streamed" /\ pc = "thrown")
    => ( /\ (AuthOrQuota(streamError) /\ ~AuthOrQuota(retryResult.error))
               => result = Throw(streamError)
         /\ (AuthOrQuota(retryResult.error) /\ ~AuthOrQuota(streamError))
               => result = Throw(retryResult.error) )

(***************************************************************************)
(* C9.  Every request, buffered or streamed, the reading of the stream     *)
(* included, is bounded by the configured timeout: no request is still     *)
(* pending once more than Timeout has elapsed since it was sent.           *)
(***************************************************************************)
Pending == pc \in {"streamFetch", "streamRead", "bufFetch"}

C9_RequestBoundedByTimeout == Pending => elapsed <= Timeout

(***************************************************************************)
(* C10.  Stream decoder: for a well-formed SSE stream (newline-terminated  *)
(* `data: <json>` lines carrying `response` or `choices[0].delta.content`, *)
(* ended by a `data: [DONE]` line), however it is split into reads, the    *)
(* fragments handed to onChunk are exactly the content values of the lines *)
(* before the sentinel, in order, the accumulated content is their         *)
(* concatenation, and the sentinel is not emitted.                         *)
(***************************************************************************)
IsContentLine(l) ==
    /\ Len(l) = 6
    /\ SubSeq(l, 1, 3) = <<"data:", SP, "{">>
    /\ l[4] \in {"response", "delta"}
    /\ l[6] = "}"

\* the text is content lines, then the sentinel line, each ended by a newline
WellFormedSSE(text) ==
    LET ls == Split(text) IN
    /\ Len(ls) >= 2
    /\ ls[Len(ls)] = <<>>
    /\ ls[Len(ls) - 1] = <<"data:", SP, DONE>>
    /\ \A i \in 1..(Len(ls) - 2) : IsContentLine(ls[i])

SSEContents(text) ==
    LET ls == Split(text) IN [i \in 1..(Len(ls) - 2) |-> <<ls[i][5]>>]

\* the stream was read to its end by the decoder
StreamDecoded ==
    entry = "streamed" /\ pc = "returned" /\ released = 1 /\ contentType # NoType

C10_WellFormedSSEDecoded ==
    (StreamDecoded /\ WellFormedSSE(streamText))
    => ( /\ chunks = SSEContents(streamText)
         /\ aiResponseContent = Concat(SSEContents(streamText))
         /\ result = Return(aiResponseContent) )


(***************************************************************************)
(* Vocabulary of the decoder properties.                                   *)
(***************************************************************************)
\* what the decoder has read of the stream so far
Consumed == SubSeq(streamText, 1, Len(streamText) - Len(wire))

\* the lines of a text that are ended by a newline
CompleteLines(text) == LET ls == Split(text) IN SubSeq(ls, 1, Len(ls) - 1)

\* the piece after the last newline
PartialLine(text) == LET ls == Split(text) IN ls[Len(ls)]

\* the decoder holds the reader, or has released it
Decoding == entry = "streamed" /\ (readerLocked \/ released = 1)

SentinelLine == <<"data:", SP, DONE>>

HasSentinel(lines) == \E i \in 1..Len(lines) : lines[i] = SentinelLine

RECURSIVE BeforeSentinel(_)
BeforeSentinel(lines) ==
    IF lines = <<>> \/ Head(lines) = SentinelLine THEN <<>>
    ELSE <<Head(lines)>> \o BeforeSentinel(Tail(lines))

\* the fragments of the lines, each decoded on its own
RECURSIVE FragmentsOf(_)
FragmentsOf(lines) ==
    IF lines = <<>> THEN <<>>
    ELSE DecodeLine(Head(lines)).emit \o FragmentsOf(Tail(lines))

IsPrefix(a, b) == Len(a) <= Len(b) /\ SubSeq(b, 1, Len(a)) = a

(***************************************************************************)
(* C11: once the sentinel line `data: [DONE]` has been processed, no later *)
(* line of the stream produces a fragment, in the same read or in a later  *)
(* one: the fragments are those of the lines before the sentinel.          *)
(* The break at the sentinel leaves the loop over the lines of one read    *)
(* only, so the lines of later reads and the rest of the buffer at the end *)
(* of the stream are still emitted.                                        *)
(***************************************************************************)
C11_NothingAfterSentinel ==
    (Decoding /\ HasSentinel(CompleteLines(Consumed)))
    => chunks = FragmentsOf(BeforeSentinel(CompleteLines(Consumed)))

(***************************************************************************)
(* C12: the sentinel is never handed to onChunk nor added to the content,  *)
(* whatever the form of its line.                                          *)
(***************************************************************************)
C12_SentinelNeverEmitted ==
    Decoding
    => ( /\ \A i \in 1..Len(chunks) : ~Includes(chunks[i], DONE)
         /\ ~Includes(aiResponseContent, DONE) )

(***************************************************************************)
(* C13: every non-empty complete line whose payload is not valid JSON and  *)
(* which is not the sentinel yields exactly one fragment, the text of the  *)
(* line (without the prefix `data: `).                                     *)
(* As stated, for every such line of the stream, this fails for the lines  *)
(* that share a read with a sentinel line before them: the break drops     *)
(* them.  It holds for the lines before the first sentinel line.           *)
(***************************************************************************)
LineText(l) == IF StartsWith(l, DataPrefix) THEN Substring(l, 2) ELSE l

IsSentinelForm(l) == StartsWith(l, <<"data:">>) /\ Trim(Substring(l, 1)) = <<DONE>>

PlainTextLine(l) ==
    /\ Trim(l) # <<>>
    /\ ~IsSentinelForm(l)
    /\ ~JSONparse(LineText(l)).ok

\* one fragment per plain-text line; the other lines as the decoder decodes them
RECURSIVE ExpectedFragments(_)
ExpectedFragments(lines) ==
    IF lines = <<>> THEN <<>>
    ELSE (IF PlainTextLine(Head(lines)) THEN <<LineText(Head(lines))>>
          ELSE DecodeLine(Head(lines)).emit)
         \o ExpectedFragments(Tail(lines))

PlainTexts(lines) ==
    LET sel == SelectSeq(lines, PlainTextLine) IN [i \in 1..Len(sel) |-> LineText(sel[i])]

NonStreamingType(ct) ==
    /\ ct # NoType
    /\ ~Includes(ct, "text/event-stream")
    /\ ~Includes(ct, "text/plain")

C14_NonStreamBodyDeliveredOnce ==
    (entry = "streamed" /\ pc = "returned" /\ NonStreamingType(contentType))
    => ( /\ chunks = <<streamText>>
         /\ aiResponseContent = streamText
         /\ result = Return(streamText) )

C14_Witness ==
    /\ entry = "streamed" /\ pc = "returned"
    /\ contentType = <<"application/json">>
    /\ streamText = JoinLines(<< <<"data:", SP, "{", "response", "A", "}">> >>)
    /\ chunks = <<streamText>>

(***************************************************************************)
(* C15: a line that arrives across several reads yields nothing until its  *)
(* newline (or the end of the stream) arrives, and then what it yields     *)
(* when it arrives in one read; the partial line is carried between reads. *)
(* The fragments are always those of some delivery of the complete lines   *)
(* in which every read ends at a newline, and the buffer is the text after *)
(* the last newline.                                                       *)
(***************************************************************************)
RECURSIVE LineAlignedResults(_)
LineAlignedResults(lines) ==
    IF lines = <<>> THEN {<<>>}
    ELSE UNION { { ProcessLines(SubSeq(lines, 1, k)) \o r :
                     r \in LineAlignedResults(SubSeq(lines, k + 1, Len(lines))) } :
                 k \in 1..Len(lines) }

C15_PartialLineCarriedOver ==
    /\ pc = "streamRead"
       => ( /\ buffer = PartialLine(Consumed)
            /\ chunks \in LineAlignedResults(CompleteLines(Consumed)) )
    /\ StreamDecoded
       => chunks \in { r \o FlushBuffer(PartialLine(streamText)) :
                         r \in LineAlignedResults(CompleteLines(streamText)) }

\* half of a line has been read: it waits in the buffer and nothing is emitted
C15_Witness ==
    /\ pc = "streamRead"
    /\ buffer = <<"data:", SP, "{", "response">>
    /\ wire = <<"A", "}", NL>>
    /\ chunks = <<>>

(***************************************************************************)
(* Vocabulary of the code-modifier properties.                             *)
(***************************************************************************)
\* parseModificationsFromResponse has returned
Parsed == mpc \in {"parsed", "applying", "applied"}

\* applyModifications has returned
Applied == mpc = "applied"

IsUpdate(m) == m.type = "update"
IsDelete(m) == m.type = "delete"

\* a piece with a fenced block whose opening fence is followed by a path token
HasPathBlock(piece) == piece.kind \in {"block", "create"} /\ piece.tag # <<>>

IsDeleteDirective(piece) == piece.kind = "delete"

(***************************************************************************)
(* C16: every fenced block whose opening fence is followed on its line by  *)
(* a path token yields exactly one modification: update, method replace,   *)
(* the token as filePath, the body of the block verbatim as content.       *)
(***************************************************************************)
C16_PathBlockYieldsUpdate ==
    Parsed
    => LET blocks == SelectSeq(pieces, HasPathBlock) IN
       SelectSeq(modifications, IsUpdate)
         = [i \in 1..Len(blocks) |->
              [type |-> "update", filePath |-> blocks[i].tag,
               content |-> <<Body>>, method |-> <<"replace">>]]

C16_Witness ==
    /\ mpc = "parsed"
    /\ pieces = <<Block(<<"dir", SLASH, "n.txt">>), Prose>>
    /\ modifications = << [type |-> "update", filePath |-> <<"dir", SLASH, "n.txt">>,
                           content |-> <<Body>>, method |-> <<"replace">>] >>

(***************************************************************************)
(* C17: a response that is one create directive followed by its fenced     *)
(* block, with or without a language tag on the fence, yields exactly one  *)
(* modification: create, the quoted path, the body of the block.           *)
(***************************************************************************)
C17_CreateDirectiveYieldsOneCreate ==
    (mpc = "parsed" /\ Len(pieces) = 1 /\ pieces[1].kind = "create")
    => modifications = << [type |-> "create", filePath |-> pieces[1].path,
                           content |-> <<Body>>, method |-> <<>>] >>

(***************************************************************************)
(* C18: every Delete file "<path>", in any letter case of the keywords,    *)
(* yields exactly one modification: delete, no content, the quoted path    *)
(* with its letters as written.                                            *)
(***************************************************************************)
C18_DeleteDirectiveYieldsDelete ==
    Parsed
    => LET directives == SelectSeq(pieces, IsDeleteDirective) IN
       SelectSeq(modifications, IsDelete)
         = [i \in 1..Len(directives) |->
              [type |-> "delete", filePath |-> directives[i].path,
               content |-> <<>>, method |-> <<>>]]

C18_Witness ==
    /\ mpc = "parsed"
    /\ pieces = <<DeleteDirective("DELETE FILE ", <<"Old.txt">>),
                  DeleteDirective("delete file ", <<"a.txt">>)>>
    /\ Len(modifications) = 2
    /\ modifications[1].filePath = <<"Old.txt">>
    /\ modifications[2].type = "delete"

(***************************************************************************)
(* C19: an item that fails does not stop the batch: every item is          *)
(* processed, modifiedFiles holds the paths of the items that did not fail *)
(* in batch order, and errors holds one message per failing item, in       *)
(* order, naming the path of that item.  An update or create with absent   *)
(* content is a failing item.                                              *)
(***************************************************************************)
ItemsWhere(failed) ==
    SelectSeq([i \in 1..Len(batch) |-> i], LAMBDA i : itemThrew[i] = failed)

C19_FailingItemIsolated ==
    /\ mpc = "applying" => Len(itemThrew) = index
    /\ Applied
       => ( /\ Len(itemThrew) = Len(batch)
            /\ \A i \in 1..Len(batch) :
                  (batch[i].type \in {"create", "update"} /\ batch[i].content = <<>>)
                  => itemThrew[i]
            /\ modResult.modifiedFiles
                 = [k \in 1..Len(ItemsWhere(FALSE)) |-> batch[ItemsWhere(FALSE)[k]].filePath]
            /\ Len(modResult.errors) = Len(ItemsWhere(TRUE))
            /\ \A k \in 1..Len(ItemsWhere(TRUE)) :
                  StartsWith(modResult.errors[k],
                             <<"Error modifying">> \o batch[ItemsWhere(TRUE)[k]].filePath) )

\* the second of three items is an update without content: the others are applied
C19_Witness ==
    /\ Applied
    /\ Len(batch) = 3
    /\ batch[2].type = "update" /\ batch[2].content = <<>>
    /\ itemThrew = <<FALSE, TRUE, FALSE>>
    /\ modResult.modifiedFiles = <<batch[1].filePath, batch[3].filePath>>
    /\ Len(modResult.errors) = 1

(***************************************************************************)
(* C20: success is false exactly when some item of the batch failed, that  *)
(* is success = (errors is empty); modifiedFiles and errors are both       *)
(* returned whatever success is.                                           *)
(***************************************************************************)
C20_SuccessIffNoError ==
    mpc \in {"applying", "applied"}
    => ( /\ modResult.success = (modResult.errors = <<>>)
         /\ modResult.success = (\A i \in 1..Len(itemThrew) : ~itemThrew[i])
         /\ Len(modResult.modifiedFiles) + Len(modResult.errors) = Len(itemThrew) )

\* a batch that failed in part: both lists are filled
C20_Witness ==
    /\ Applied
    /\ ~modResult.success
    /\ modResult.modifiedFiles # <<>>
    /\ modResult.errors # <<>>

(***************************************************************************)
(* C21: an update with method merge leaves the file as it is when the      *)
(* trimmed new content is a part of the current content, and otherwise     *)
(* leaves current + two newlines + new content.                            *)
(* For an empty or missing file this is not what happens: the file ends as *)
(* the new content, without the two newlines.  The statement holds for a   *)
(* file that is not empty.                                                 *)
(***************************************************************************)
\* the item the loop is about to process
NextItem == batch[index + 1]

\* the loop applies a merge and the item does not fail
MergeStep ==
    /\ mpc = "applying" /\ index < Len(batch)
    /\ index' = index + 1
    /\ NextItem.type = "update" /\ NextItem.method = <<"merge">>
    /\ ~itemThrew'[index + 1]

ContentOf(files, p) == IF p \in DOMAIN files THEN files[p] ELSE <<>>

CurrentContent == ContentOf(fsFiles, Join(ProjectPath, NextItem.filePath))
ContentAfter == ContentOf(fsFiles', Join(ProjectPath, NextItem.filePath))

\* the result of the merge as the statement gives it
MergedAsStated(current, new) ==
    IF IsInfix(Trim(new), current) THEN current ELSE current \o <<NL, NL>> \o new

C21_MergeAsStated ==
    [][MergeStep => ContentAfter = MergedAsStated(CurrentContent, NextItem.content[1])]_vars

C21_MergeOfNonEmptyFile ==
    [][MergeStep =>
         ContentAfter = IF CurrentContent = <<>> THEN NextItem.content[1]
                        ELSE MergedAsStated(CurrentContent, NextItem.content[1])]_vars

\* the file held old, new is merged into it
C21_Witness ==
    /\ Applied
    /\ batch = << [type |-> "update", filePath |-> <<"a.txt">>,
                   content |-> <<<<"new", NL>>>>, method |-> <<"merge">>] >>
    /\ fsFiles[ProjectPath \o << <<"a.txt">> >>] = <<"old", NL, NL, NL, "new", NL>>

(***************************************************************************)
(* C22: applyModifications never leaves the project root silently: every   *)
(* file written and every directory created lies inside the project root,  *)
(* or the item is reported as an error.                                    *)
(* The path is joined to the root and used as it is: a filePath with ..    *)
(* is written outside the root and the item counts as modified.            *)
(***************************************************************************)
Inside(root, p) == IsPrefix(root, p)

C22_NoSilentEscape ==
    (mpc \in {"applying", "applied"} /\ modResult.errors = <<>>)
    => ( /\ \A p \in DOMAIN fsFiles : Inside(ProjectPath, p)
         /\ \A d \in fsDirs : Inside(ProjectPath, d) \/ d \in InitialDirs )

(***************************************************************************)
(* C23: a turn whose AI content is prose followed by one fenced block      *)
(* headed x.js reports one modification; once the user has confirmed, the  *)
(* apply step returns modifiedFiles = [x.js] and success = true, and x.js  *)
(* holds the body of the block.                                            *)
(***************************************************************************)
ProseThenBlock == pieces = <<Prose, Block(<<"x.js">>)>>

C23_ProseAndBlockApplied ==
    /\ (Parsed /\ ProseThenBlock) => Len(modifications) = 1
    /\ (Applied /\ ProseThenBlock)
       => ( /\ modResult.modifiedFiles = << <<"x.js">> >>
            /\ modResult.success
            /\ modResult.errors = <<>>
            /\ ContentOf(fsFiles, ProjectPath \o << <<"x.js">> >>) = Body )

C23_Witness ==
    /\ Applied
    /\ ProseThenBlock
    /\ modResult.modifiedFiles = << <<"x.js">> >>
    /\ (ProjectPath \o << <<"x.js">> >>) \in DOMAIN fsFiles

(***************************************************************************)
(* C29: a create or update with absent content is rejected before the disk *)
(* is touched: the step that processes it writes no file and creates no    *)
(* directory, records one error and no modified file, and the loop goes on *)
(* to the next item.                                                       *)
(***************************************************************************)
\* the loop processes an item that lacks its content
RejectedStep ==
    /\ mpc = "applying" /\ index < Len(batch)
    /\ index' = index + 1
    /\ NextItem.type \in {"create", "update"} /\ NextItem.content = <<>>

C29_AbsentContentRejectedFirst ==
    [][RejectedStep =>
         /\ fsFiles' = fsFiles
         /\ fsDirs' = fsDirs
         /\ Len(modResult'.errors) = Len(modResult.errors) + 1
         /\ modResult'.modifiedFiles = modResult.modifiedFiles
         /\ ~modResult'.success
         /\ mpc' = "applying"]_vars

\* a.txt is deleted, then an update of a.txt/n.txt without content is rejected:
\* no directory a.txt appears, and the third item is applied
C29_Witness ==
    /\ Applied
    /\ Len(batch) = 3
    /\ batch[1].type = "delete" /\ batch[1].filePath = <<"a.txt">>
    /\ batch[2].type = "update" /\ batch[2].content = <<>>
    /\ batch[2].filePath = <<"a.txt", SLASH, "n.txt">>
    /\ itemThrew = <<FALSE, TRUE, FALSE>>
    /\ (ProjectPath \o << <<"a.txt">> >>) \notin fsDirs

(***************************************************************************)
(* C30: a delete whose target file does not exist is not an error: it adds *)
(* nothing to errors, leaves success as it was, and the loop goes on.      *)
(* The directory of the target is prepared before the delete: when a file  *)
(* stands where that directory is wanted, the item is reported as failed.  *)
(***************************************************************************)
\* the loop processes a delete of a path that is not on the disk
DeleteMissingStep ==
    /\ mpc = "applying" /\ index < Len(batch)
    /\ index' = index + 1
    /\ NextItem.type = "delete"
    /\ ~PathExists(Disk(fsFiles, fsDirs), Join(ProjectPath, NextItem.filePath))

C30_DeleteOfMissingFileNoError ==
    [][DeleteMissingStep =>
         /\ modResult'.errors = modResult.errors
         /\ modResult'.success = modResult.success
         /\ mpc' = "applying"]_vars

(***************************************************************************)
(* C27: a complete line with the prefix data: whose JSON payload has no    *)
(* response field but has choices[0].delta.content yields that content as  *)
(* a fragment, as the same JSON does on a line without the prefix.         *)
(* The branch for the prefix reads parsed.response only.                   *)
(***************************************************************************)
IsDeltaLine(l) ==
    /\ Len(l) = 6
    /\ SubSeq(l, 1, 3) = <<"data:", SP, "{">>
    /\ l[4] = "delta"
    /\ l[6] = "}"

C27_PrefixedDeltaEmitted ==
    LET lines == CompleteLines(Consumed) IN
    (pc = "streamRead" /\ \A i \in 1..Len(lines) : IsDeltaLine(lines[i]))
    => ( /\ chunks = [i \in 1..Len(lines) |-> <<lines[i][5]>>]
         /\ chunks = FragmentsOf([i \in 1..Len(lines) |-> Substring(lines[i], 2)]) )

(***************************************************************************)
(* Vocabulary of the session properties.                                   *)
(***************************************************************************)
\* this step ends a turn in failure
TurnFailsStep ==
    /\ Len(turnOutcomes') = Len(turnOutcomes) + 1
    /\ turnOutcomes'[Len(turnOutcomes')] = "failed"

\* this step sends a request
SendStep == Len(sent') = Len(sent) + 1

\* the last finished turn failed
LastTurnFailed == turnOutcomes # <<>> /\ turnOutcomes[Len(turnOutcomes)] = "failed"

\* the user messages of a transcript
RECURSIVE UserTexts(_)
UserTexts(msgs) ==
    IF msgs = <<>> THEN <<>>
    ELSE IF Head(msgs).role = "user" THEN <<Head(msgs).content>> \o UserTexts(Tail(msgs))
    ELSE UserTexts(Tail(msgs))

\* a user message that is followed by no assistant reply, other than the last
HasUnansweredBefore(msgs) ==
    \E i \in 1..(Len(msgs) - 1) : msgs[i].role = "user" /\ msgs[i + 1].role # "assistant"

\* C24: the step that ends a turn in failure (retries exhausted, or a
\* failure that is not retried) leaves the session at the prompt, where the
\* next input is taken; the loop is left only from the prompt, by the user
C24_FailedTurnReturnsToPrompt ==
    [][ /\ (TurnFailsStep => spc' = "prompt")
        /\ (spc' = "exited" /\ spc # "exited" => spc = "prompt") ]_vars

\* a turn failed and the next input has been taken
C24_Witness ==
    /\ Len(turnOutcomes) = 1
    /\ LastTurnFailed
    /\ turn = 2
    /\ spc \in {"streamed", "buffered"}

\* C25: at most one HTTP request is in flight; none is while the session
\* prompts or sleeps between attempts; and a request is sent only when none
\* is in flight (the fallback and every retry after the attempt before ended)
C25_AtMostOneRequestInFlight ==
    /\ inFlight <= 1
    /\ (spc \in {"prompt", "sleeping", "exited", "confirming", "applying"} => inFlight = 0)
    /\ (spc \in {"streamed", "buffered"} => inFlight = 1)

\* a turn that sent the streamed request, the fallback and every retry
C25_Witness ==
    /\ streaming
    /\ spc = "buffered"
    /\ sessAttempt = MaxRetries
    /\ Len(sent) = MaxRetries + 1
    /\ inFlight = 1

\* C26: every request carries the whole transcript as it stood when the
\* turn's input was taken, ending with that input; the transcript only
\* grows, so every body sent is a prefix of the transcript ever after
C26_EveryRequestCarriesTranscript ==
    \A i \in 1..Len(sent) :
        /\ Len(sent[i].body) >= 2
        /\ sent[i].body[Len(sent[i].body)] = UserMessage(inputs[sent[i].turn])
        /\ sent[i].body[1] = SystemPrompt
        /\ UserTexts(sent[i].body) = SubSeq(inputs, 1, sent[i].turn)
        /\ IsPrefix(sent[i].body, messages)

\* the second turn, after an answered first one, fell back and retried
C26_Witness ==
    /\ turn = 2
    /\ turnOutcomes = <<"ok">>
    /\ streaming
    /\ sessAttempt = 2
    /\ spc = "buffered"
    /\ Len(sent[Len(sent)].body) = 4

\* C28: a turn that fails leaves the transcript as it was before the turn,
\* and no request sent carries an unanswered user message of an earlier turn
C28_FailedTurnLeavesTranscript ==
    [][ /\ (TurnFailsStep => messages' = turnStart)
        /\ (SendStep => ~HasUnansweredBefore(sent'[Len(sent')].body)) ]_vars

(***************************************************************************)
(* C37: every item of a batch adds either its path to modifiedFiles or one *)
(* message to errors, never both and never neither; on return the two      *)
(* lists together have as many entries as the batch has items.             *)
(***************************************************************************)
\* the loop processes one item
ItemStep == mpc = "applying" /\ index < Len(batch) /\ index' = index + 1

C37_OneEntryPerItem ==
    [][ /\ ItemStep =>
              \/ /\ modResult'.modifiedFiles
                       = Append(modResult.modifiedFiles, NextItem.filePath)
                 /\ modResult'.errors = modResult.errors
              \/ /\ modResult'.modifiedFiles = modResult.modifiedFiles
                 /\ Len(modResult'.errors) = Len(modResult.errors) + 1
                 /\ SubSeq(modResult'.errors, 1, Len(modResult.errors)) = modResult.errors
        /\ mpc' = "applied" =>
              Len(modResult'.modifiedFiles) + Len(modResult'.errors) = Len(batch') ]_vars

\* three items: one applied, one of unknown type, one that throws
C37_Witness ==
    /\ Applied
    /\ Len(batch) = 3
    /\ batch[1].type = "delete"
    /\ batch[2].type = "rename"
    /\ batch[3].type = "create" /\ batch[3].content = Absent
    /\ Len(modResult.modifiedFiles) = 1
    /\ Len(modResult.errors) = 2

(***************************************************************************)
(* C38: the list the parser returns is grouped by rule: the updates, then  *)
(* the creates, then the deletes, each group in the order of the text; the *)
(* list is applied in that order, a delete after every update and create.  *)
(***************************************************************************)
Rank(type) == CASE type = "update" -> 1 [] type = "create" -> 2 [] OTHER -> 3

IsCreate(m) == m.type = "create"
IsCreateDirective(piece) == piece.kind = "create"

PathsOf(ms) == [i \in 1..Len(ms) |-> ms[i].filePath]
QuotedPathsOf(ps) == [i \in 1..Len(ps) |-> ps[i].path]

C38_GroupedByRule ==
    Parsed /\ pieces # <<>>
    => /\ \A i, j \in 1..Len(modifications) :
             i < j => Rank(modifications[i].type) <= Rank(modifications[j].type)
       /\ PathsOf(SelectSeq(modifications, IsUpdate))
             = [i \in 1..Len(SelectSeq(pieces, HasPathBlock)) |->
                  SelectSeq(pieces, HasPathBlock)[i].tag]
       /\ PathsOf(SelectSeq(modifications, IsCreate))
             = QuotedPathsOf(SelectSeq(pieces, IsCreateDirective))
       /\ PathsOf(SelectSeq(modifications, IsDelete))
             = QuotedPathsOf(SelectSeq(pieces, IsDeleteDirective))
       /\ (mpc \in {"applying", "applied"} => batch = modifications)

\* the delete directive stands first in the text and is applied last
C38_Witness ==
    /\ Applied
    /\ pieces = <<DeleteDirective("Delete file ", <<"a.txt">>), Block(<<"x.js">>)>>
    /\ PathsOf(batch) = << <<"x.js">>, <<"a.txt">> >>
    /\ modResult.modifiedFiles = << <<"x.js">>, <<"a.txt">> >>
    /\ (ProjectPath \o << <<"a.txt">> >>) \notin DOMAIN fsFiles

(***************************************************************************)
(* C39: the same merge applied twice in a row leaves the file as the first *)
(* application left it.                                                    *)
(***************************************************************************)
\* the loop applies a merge that is the same item as the one before it
RepeatedMergeStep ==
    /\ ItemStep
    /\ index >= 1
    /\ NextItem = batch[index]
    /\ NextItem.type = "update" /\ NextItem.method = <<"merge">>
    /\ ~itemThrew[index]

C39_MergeIdempotent ==
    [][RepeatedMergeStep => fsFiles' = fsFiles /\ ~itemThrew'[index + 1]]_vars

\* new was merged twice into the file that held old: it stands there once
C39_Witness ==
    /\ Applied
    /\ Len(batch) = 2
    /\ batch[1] = batch[2]
    /\ batch[1] = [type |-> "update", filePath |-> <<"a.txt">>,
                   content |-> <<<<"new", NL>>>>, method |-> <<"merge">>]
    /\ fsFiles[ProjectPath \o << <<"a.txt">> >>] = <<"old", NL, NL, NL, "new", NL>>

(***************************************************************************)
(* C40: a delete whose target does not exist leaves the disk as it is: no  *)
(* file and no directory is created, changed or removed.                   *)
(* The directory of the target is prepared before the delete, so a missing *)
(* parent directory is created.                                            *)
(***************************************************************************)
C40_DeleteOfMissingFileLeavesDisk ==
    [][DeleteMissingStep => fsFiles' = fsFiles /\ fsDirs' = fsDirs]_vars

(***************************************************************************)
(* C32: the fragments emitted for a stream depend on its text only, not on *)
(* how the transport splits it into reads: they are the fragments that the *)
(* text gives when it arrives in one read.                                 *)
(* The break at the sentinel skips the rest of the lines of that read      *)
(* only: a line after the sentinel is dropped when it arrives in the same  *)
(* read and decoded when it arrives in a later one.                        *)
(***************************************************************************)
\* the fragments of a text that arrives in one read, followed by the end
OneReadFragments(text) ==
    ProcessLines(CompleteLines(text)) \o FlushBuffer(PartialLine(text))

C32_FragmentsIndependentOfSplit ==
    StreamDecoded => chunks = OneReadFragments(streamText)

(***************************************************************************)
(* C33: at the end of the stream a last line without its newline is        *)
(* decoded as a complete line is (prefix stripped, JSON field extracted),  *)
(* so the stream yields the fragments of the same stream with the newline. *)
(* The flush strips the prefix and emits the rest as it is: a JSON payload *)
(* is emitted as raw text.                                                 *)
(***************************************************************************)
\* reader.read() reports done
FlushStep == pc = "streamRead" /\ pc' = "returned"

C33_FlushDecodesAsLine ==
    [][FlushStep => chunks' = chunks \o ProcessLines(<<buffer>>)]_vars

(***************************************************************************)
(* C34: on every return of getStreamedResponse the returned content is the *)
(* concatenation, in order, of the fragments handed to onChunk.            *)
(* After a stream that failed when fragments had been delivered, the       *)
(* result is that of the fallback alone, while onChunk has received the    *)
(* earlier fragments and the fallback content.                             *)
(***************************************************************************)
C34_ContentIsConcatenationOfFragments ==
    entry = "streamed" /\ pc = "returned" => result.content = Concat(chunks)

(***************************************************************************)
(* C36: a reader that was acquired is released exactly once, when the      *)
(* reading ends: at the end of the stream and when a read throws; no lock  *)
(* is held when the call has returned, thrown or gone on to the fallback.  *)
(***************************************************************************)
C36_ReaderReleasedOnce ==
    [][ /\ (readerLocked /\ pc' # "streamRead")
              => (released' = released + 1 /\ ~readerLocked')
        /\ released' # released => (readerLocked /\ released' = 1)
        /\ pc' # "streamRead" => ~readerLocked' ]_vars

\* a read threw after the reader was acquired, and the fallback is under way
C36_Witness ==
    /\ entry = "streamed"
    /\ pc = "bufFetch"
    /\ streamError.cls = "TypeError"
    /\ chunks # <<>>
    /\ released = 1
    /\ ~readerLocked

(***************************************************************************)
(* C35: a call of getStreamedResponse sends at most 1 + maxRetries         *)
(* requests, the streamed one and then at most maxRetries buffered ones,   *)
(* and, when every request ends, the call returns or raises in the end.    *)
(***************************************************************************)
C35_BoundedRequestsAndTermination ==
    (entry = "streamed")
      ~> ( /\ pc \in {"returned", "thrown"}
           /\ Len(requests) <= 1 + MaxRetries
           /\ requests[1] = "streamed"
           /\ \A i \in 2..Len(requests) : requests[i] = "buffered" )

\* the whole budget was used and the call raised
C35_Witness ==
    /\ entry = "streamed"
    /\ pc = "thrown"
    /\ Len(requests) = 1 + MaxRetries
    /\ Len(outcomes) = MaxRetries

(***************************************************************************)
(* C31: the modifications parsed from an answer are applied only after the *)
(* user has said yes to the confirmation of that turn: without a project,  *)
(* with no modification found, or with another answer, applyModifications  *)
(* is not called and the files of the project stay as they are.            *)
(***************************************************************************)
\* applyModifications is called
ApplyCalled == mpc # "applying" /\ mpc' = "applying"

\* the disk changes
DiskChanged == fsFiles' # fsFiles \/ fsDirs' # fsDirs

\* the last confirmation was asked in this turn and answered with a yes
ConfirmedThisTurn(cs) ==
    /\ cs # <<>>
    /\ cs[Len(cs)].turn = turn
    /\ Trim(cs[Len(cs)].answer) \in {<<"y">>, <<"yes">>, <<"Y">>, <<"YES">>}

C31_AppliedOnlyAfterConfirmation ==
    [][ /\ ApplyCalled
              => /\ hasProject
                 /\ spc = "confirming"
                 /\ modifications = parseModificationsFromResponse(
                                       messages[Len(messages)].content)
                 /\ modifications # <<>>
                 /\ batch' = modifications
                 /\ ConfirmedThisTurn(confirms')
        /\ DiskChanged
              => /\ hasProject
                 /\ spc = "applying"
                 /\ ConfirmedThisTurn(confirms)
        /\ (spc \in {"streamed", "buffered"} /\ spc' = "prompt") => ~ApplyCalled ]_vars

\* the first turn was declined and left the disk alone, the second was
\* confirmed and applied
C31_Witness ==
    /\ spc = "prompt"
    /\ turn = 2
    /\ Len(confirms) = 2
    /\ confirms[1].answer = <<"n">>
    /\ confirms[2].answer = <<SP, "YES">>
    /\ modResult.modifiedFiles = << <<"x.js">> >>
    /\ (ProjectPath \o << <<"x.js">> >>) \in DOMAIN fsFiles

=============================================================================
